---- MODULE Spec2Model ----
(***************************************************************************)
(* rsastore: order ledger, payment webhook, cleanup sweep, recovery,       *)
(* download and the WhatsApp bot's chat session.                           *)
(*                                                                         *)
(* The relational store is modelled statement by statement: every SQL      *)
(* statement is one atomic step, and a request handler is the sequence of  *)
(* its statements, interleaved with the statements of the other handlers.  *)
(* Strings are sequences of character codes, so that formatting, parsing   *)
(* and comparing them is computed the way the program computes it.         *)
(* An optional value (NULL, undefined, NaN) is the empty sequence <<>>,    *)
(* a present value v is <<v>>.                                             *)
(***************************************************************************)
EXTENDS Integers, Sequences, FiniteSets, TLC

VARIABLES
    now,        \* wall clock, minutes since 2025-01-01 00:00 UTC
    settings,   \* settings table: key -> value
    products,   \* products table: id -> row
    orders,     \* orders table: set of rows, invoice_number UNIQUE
    tokens,     \* download_tokens table: set of rows, token PRIMARY KEY
    wh,         \* webhook handlers in flight: handler -> locals
    co,         \* web checkout handler in flight
    rc,         \* recovery handler in flight
    dl,         \* download handler in flight
    dl2,        \* a second download handler in flight
    bot,        \* WhatsApp bot: the chat session of a buyer and its checkout in flight
    lastId      \* sqlite_sequence of orders: the last AUTOINCREMENT id given

vars ==
    <<now, settings, products, orders, tokens, wh, co, rc, dl, dl2, bot, lastId>>

(***************************************************************************)
(* Bounds of the model.                                                    *)
(***************************************************************************)
MaxOrders == 2      \* order rows inserted over a run
MaxTicks  == 1      \* clock advances over a run
MaxTokens == 2      \* token rows inserted over a run
MaxDownloads == 2   \* redemptions counted per token

(***************************************************************************)
(* Strings and timestamps.                                                 *)
(***************************************************************************)
MinutesPerHour == 60
MinutesPerDay == 24 * MinutesPerHour

\* '2025-01-', the year and month of every timestamp of a run
DatePrefix == <<50, 48, 50, 53, 45, 48, 49, 45>>

\* a number below 100 as two decimal digits
Digits2(n) == <<48 + (n \div 10), 48 + (n % 10)>>

DayOfMonth(t) == 1 + (t \div MinutesPerDay)
HourOfDay(t) == (t % MinutesPerDay) \div MinutesPerHour
MinuteOfHour(t) == t % MinutesPerHour

\* SQLite CURRENT_TIMESTAMP: 'YYYY-MM-DD HH:MM:SS' (UTC)
CurrentTimestamp(t) ==
    DatePrefix \o Digits2(DayOfMonth(t)) \o <<32>> \o Digits2(HourOfDay(t))
        \o <<58>> \o Digits2(MinuteOfHour(t)) \o <<58, 48, 48>>

\* Date.prototype.toISOString: 'YYYY-MM-DDTHH:MM:SS.sssZ' (UTC)
ToISOString(t) ==
    DatePrefix \o Digits2(DayOfMonth(t)) \o <<84>> \o Digits2(HourOfDay(t))
        \o <<58>> \o Digits2(MinuteOfHour(t)) \o <<58, 48, 48, 46, 48, 48, 48, 90>>

IsDigit(c) == c \in 48..57

\* the decimal value of a sequence of digits
RECURSIVE DigitsValue(_)
DigitsValue(ds) ==
    IF ds = <<>> THEN 0
    ELSE 10 * DigitsValue(SubSeq(ds, 1, Len(ds) - 1)) + (ds[Len(ds)] - 48)

\* the instant a timestamp of either format denotes, in minutes
TimestampMinutes(ts) ==
    (DigitsValue(SubSeq(ts, 9, 10)) - 1) * MinutesPerDay
        + DigitsValue(SubSeq(ts, 12, 13)) * MinutesPerHour
        + DigitsValue(SubSeq(ts, 15, 16))

\* SQLite '<' on two TEXT values under the BINARY collation (memcmp, then length)
TextLess(a, b) ==
    \/ \E i \in 1..Len(a) :
         /\ i <= Len(b)
         /\ \A j \in 1..(i - 1) : a[j] = b[j]
         /\ a[i] < b[i]
    \/ /\ Len(a) < Len(b)
       /\ \A j \in 1..Len(a) : a[j] = b[j]

\* JavaScript truthiness of a string value that may be undefined
Truthy(opt) == opt /= <<>> /\ opt[1] /= <<>>

\* the longest prefix of s made of digits
RECURSIVE DigitPrefix(_)
DigitPrefix(s) ==
    IF s = <<>> \/ ~IsDigit(Head(s)) THEN <<>>
    ELSE <<Head(s)>> \o DigitPrefix(Tail(s))

RECURSIVE SkipSpaces(_)
SkipSpaces(s) == IF s /= <<>> /\ Head(s) = 32 THEN SkipSpaces(Tail(s)) ELSE s

\* parseInt(s, 10) of a string: <<n>>, or <<>> for NaN
ParseInt(s) ==
    LET ds == DigitPrefix(SkipSpaces(s))
    IN  IF ds = <<>> THEN <<>> ELSE <<DigitsValue(ds)>>

\* String(n) of a non-negative integer
RECURSIVE NumberToString(_)
NumberToString(n) ==
    IF n < 10 THEN <<48 + n>>
    ELSE NumberToString(n \div 10) \o <<48 + (n % 10)>>

(***************************************************************************)
(* The store's contents at start-up and the inputs of the requests.        *)
(***************************************************************************)
ProductIds == {"p1", "p2"}

\* the product the buyers of a run order
OrderedProducts == {"p1"}

\* a product the administrator has taken off the shelf (is_active = 0)
InactiveProducts == {"p3"}

InitialProducts ==
    [p \in ProductIds \cup InactiveProducts |->
        IF p = "p1"
        THEN [price |-> 50000, stock |-> 1, is_active |-> TRUE,
              file_path |-> <<102>>, download_link |-> <<>>]
        ELSE IF p = "p2"
        THEN [price |-> 50001, stock |-> 2, is_active |-> TRUE,
              file_path |-> <<>>, download_link |-> <<108>>]
        ELSE [price |-> 50000, stock |-> 1, is_active |-> FALSE,
              file_path |-> <<102>>, download_link |-> <<>>]]

\* :productId of a checkout request: a product on sale, the inactive one, no row
CheckoutProductInputs == {"p1", "p3", "p0"}

\* 'CHANGE_THIS_SECRET_KEY', the seeded webhook_api_key
DefaultWebhookKey ==
    <<67, 72, 65, 78, 71, 69, 95, 84, 72, 73, 83, 95, 83, 69, 67, 82, 69, 84,
      95, 75, 69, 89>>

\* '60', the seeded token_expiry_minutes
DefaultTokenExpiry == <<54, 48>>

\* '0', the seeded smtp_active
DefaultSmtpActive == <<48>>

\* '0002', the first characters of the seeded qris_base_string
DefaultQrisBase == <<48, 48, 48, 50>>

\* the rows initDatabase seeds with INSERT OR IGNORE
DefaultSettings ==
    [k \in {"webhook_api_key", "token_expiry_minutes", "smtp_active",
            "qris_base_string"} |->
        IF k = "webhook_api_key" THEN DefaultWebhookKey
        ELSE IF k = "token_expiry_minutes" THEN DefaultTokenExpiry
        ELSE IF k = "smtp_active" THEN DefaultSmtpActive
        ELSE DefaultQrisBase]

\* keys and values an administrator writes with updateSetting
SettingWrites ==
    { <<"webhook_api_key", <<>>>>,
      <<"webhook_api_key", <<107>>>>,
      <<"token_expiry_minutes", <<51, 48>>>>,
      <<"token_expiry_minutes", <<>>>>,
      <<"smtp_active", <<49>>>>,
      <<"maintenance_note", <<120>>>> }

\* the merchant template an administrator configures: '0003'
QrisWrites == { <<"qris_base_string", <<48, 48, 48, 51>>>> }

\* X-API-Key headers presented to the webhook: absent, wrong, the seeded key
ApiKeyInputs == { <<>>, << <<107>> >>, <<DefaultWebhookKey>> }

\* buyer contacts after sanitization: [email, whatsapp, telegram]
ContactInputs ==
    { [email |-> <<97, 64, 120, 46, 121>>, whatsapp |-> <<54, 50>>, telegram |-> <<>>],
      [email |-> <<>>, whatsapp |-> <<54, 51>>, telegram |-> <<>>] }

\* buyer contacts of a checkout request after sanitization: also the email
\* alone and nothing at all
CheckoutContactInputs ==
    ContactInputs
        \cup { [email |-> <<97, 64, 120, 46, 121>>, whatsapp |-> <<>>, telegram |-> <<>>],
               [email |-> <<>>, whatsapp |-> <<>>, telegram |-> <<>>] }

\* contacts a recovery request supplies, after sanitization: the email alone
\* in capitals ('A@X.Y'), the number alone, a number no order has, nothing
RecoveryContactInputs ==
    { [email |-> <<65, 64, 88, 46, 89>>, whatsapp |-> <<>>, telegram |-> <<>>],
      [email |-> <<>>, whatsapp |-> <<54, 50>>, telegram |-> <<>>],
      [email |-> <<>>, whatsapp |-> <<54, 51>>, telegram |-> <<>>],
      [email |-> <<>>, whatsapp |-> <<>>, telegram |-> <<>>] }

\* 'a@x.y' and '62', the email and number a WhatsApp buyer gives the bot
BotEmail == <<97, 64, 120, 46, 121>>
BotWhatsapp == <<54, 50>>

\* what a WhatsApp buyer types when asked for the email: 'a@x.y', 'ab'
BotEmailInputs == { BotEmail, <<97, 98>> }

\* the first clock value of a run: 23:00 of day 1
StartTime == 23 * MinutesPerHour
\* the clock moves in steps of 90 minutes
TickMinutes == (3 * MinutesPerHour) \div 2

\* notification bodies posted to the webhook: [amountDetected, amount, text]
NotificationInputs ==
    { [amountDetected |-> <<50001>>, amount |-> <<>>, text |-> <<>>],
      [amountDetected |-> <<>>, amount |-> <<50003>>, text |-> <<>>],
      \* 'Rp 50.002'
      [amountDetected |-> <<>>, amount |-> <<>>,
       text |-> << <<82, 112, 32, 53, 48, 46, 48, 48, 50>> >>],
      \* 'Rp ,', from which parseInt yields NaN
      [amountDetected |-> <<>>, amount |-> <<>>, text |-> << <<82, 112, 32, 44>> >>],
      [amountDetected |-> <<>>, amount |-> <<>>, text |-> <<>>] }

(***************************************************************************)
(* Values generated by utils.js.                                           *)
(***************************************************************************)
\* generateUniqueCode(): a random surcharge, drawn independently per order
UniqueCodes == {1, 2}

\* generateInvoiceNumber(): the date and a sequence part
generateInvoiceNumber(t, seq) ==
    <<73, 78, 86>> \o Digits2(DayOfMonth(t)) \o Digits2(seq)

\* the sequence parts generateInvoiceNumber() can come up with
InvoiceSequences == 1..MaxOrders

\* generateDownloadToken(): a random string, never one already handed out
TokenString(k) == <<116>> \o Digits2(k)
ReservedTokens ==
    {wh[h].token[1] : h \in {x \in DOMAIN wh : wh[x].token /= <<>>}}
        \cup (IF rc.token /= <<>> THEN {rc.token[1]} ELSE {})
UsedTokens == {t.token : t \in tokens} \cup ReservedTokens
generateDownloadToken ==
    TokenString(CHOOSE k \in 1..(MaxTokens + 3) :
        /\ TokenString(k) \notin UsedTokens
        /\ \A j \in 1..(k - 1) : TokenString(j) \in UsedTokens)

(***************************************************************************)
(* Settings store (database.js).                                           *)
(***************************************************************************)
\* settings.<key> of the object getSettings builds: the value or undefined
Setting(s, k) == IF k \in DOMAIN s THEN <<s[k]>> ELSE <<>>

\* getSetting: 'SELECT value FROM settings WHERE key = ?', null without a row
getSetting(s, k) == IF k \in DOMAIN s THEN <<s[k]>> ELSE <<>>

\* the table after 'UPDATE settings SET value = ?, updated_at = ... WHERE key = ?'
\* (updated_at, a column no statement of the program reads, is left out)
UpdatedSettings(s, k, v) == [x \in DOMAIN s |-> IF x = k THEN v ELSE s[x]]

updateSetting(k, v) ==
    /\ settings' = UpdatedSettings(settings, k, v)
    /\ UNCHANGED <<now, products, orders, tokens, wh, co, rc, dl, dl2, lastId, bot>>

(***************************************************************************)
(* Cleanup sweep (server, cleanupExpiredOrders).                           *)
(***************************************************************************)
\* a sweep that forgets the status filter: 'DELETE FROM orders WHERE created_at < ?'
ExpiredOrdersAnyStatus(rows, oneHourAgo) ==
    {o \in rows : TextLess(o.created_at, oneHourAgo)}

\* a sweep that looks for a status no order has: status = 'expired'
ExpiredOrdersByStatusExpired(rows, oneHourAgo) ==
    {o \in rows : o.status = "expired" /\ TextLess(o.created_at, oneHourAgo)}

\* the rows 'DELETE FROM orders WHERE status = ? AND created_at < ?' removes
ExpiredOrders(rows, oneHourAgo) ==
    {o \in rows : o.status = "pending" /\ TextLess(o.created_at, oneHourAgo)}

cleanupExpiredOrders(ok) ==
    LET oneHourAgo == ToISOString(now - MinutesPerHour)
    IN  /\ orders' = IF ok THEN orders \ ExpiredOrders(orders, oneHourAgo)
                           ELSE orders
        /\ UNCHANGED <<now, settings, products, tokens, wh, co, rc, dl, dl2, lastId, bot>>

\* the wall clock advances
Tick ==
    /\ now < StartTime + MaxTicks * TickMinutes
    /\ now' = now + TickMinutes
    /\ UNCHANGED <<settings, products, orders, tokens, wh, co, rc, dl, dl2, lastId, bot>>

(***************************************************************************)
(* Payment webhook (server, POST /webhook/payment).                        *)
(***************************************************************************)
Handlers == {"w1", "w2"}

Response(status, message) ==
    <<[status |-> status, message |-> message, invoice |-> <<>>]>>

IdleHandler ==
    [pc |-> "idle", apiKey |-> <<>>, settings |-> <<>>, amount |-> <<>>,
     order |-> <<>>, token |-> <<>>, expiresAt |-> <<>>, res |-> <<>>,
     errors |-> {}, sent |-> <<>>]

\* /Rp\s*([\d\.,]+)/ tried at position i: the captured group, or <<>>
IsSpace(c) == c \in {9, 10, 13, 32}
IsAmountChar(c) == IsDigit(c) \/ c \in {44, 46}
RECURSIVE AmountCharPrefix(_)
AmountCharPrefix(s) ==
    IF s = <<>> \/ ~IsAmountChar(Head(s)) THEN <<>>
    ELSE <<Head(s)>> \o AmountCharPrefix(Tail(s))
RECURSIVE SkipWhitespace(_)
SkipWhitespace(s) ==
    IF s /= <<>> /\ IsSpace(Head(s)) THEN SkipWhitespace(Tail(s)) ELSE s
RupiahGroupAt(s, i) ==
    IF i + 1 <= Len(s) /\ s[i] = 82 /\ s[i + 1] = 112
    THEN AmountCharPrefix(SkipWhitespace(SubSeq(s, i + 2, Len(s))))
    ELSE <<>>
\* text.match(/Rp\s*([\d\.,]+)/): match[1] of the leftmost match, or <<>>
RupiahMatch(s) ==
    LET hits == {i \in 1..Len(s) : RupiahGroupAt(s, i) /= <<>>}
    IN  IF hits = {} THEN <<>>
        ELSE <<RupiahGroupAt(s, CHOOSE i \in hits : \A j \in hits : i <= j)>>

\* match[1].replace(/[.,]/g, '')
StripSeparators(s) == SelectSeq(s, LAMBDA c : c \notin {44, 46})

\* the amount the handler extracts: <<n>>, or <<>> for NaN
ExtractAmount(n) ==
    IF n.amountDetected /= <<>> /\ n.amountDetected[1] /= 0
    THEN ParseInt(NumberToString(n.amountDetected[1]))
    ELSE IF n.amount /= <<>> /\ n.amount[1] /= 0
    THEN ParseInt(NumberToString(n.amount[1]))
    ELSE IF Truthy(n.text) /\ RupiahMatch(n.text[1]) /= <<>>
    THEN ParseInt(StripSeparators(RupiahMatch(n.text[1])[1]))
    ELSE <<0>>

\* a key check that lets a request without the header through:
\* settings.webhook_api_key && apiKey && apiKey !== settings.webhook_api_key
KeyRejectedIfPresented(s, apiKey) ==
    /\ Truthy(Setting(s, "webhook_api_key"))
    /\ apiKey /= <<>>
    /\ apiKey /= Setting(s, "webhook_api_key")

\* settings.webhook_api_key && apiKey !== settings.webhook_api_key
KeyRejected(s, apiKey) ==
    /\ Truthy(Setting(s, "webhook_api_key"))
    /\ apiKey /= Setting(s, "webhook_api_key")

\* an expiry that ignores the setting: parseInt('60')
ExpiryMinutesFixed(s) == ParseInt(DefaultTokenExpiry)

\* parseInt(settings.token_expiry_minutes || '60')
ExpiryMinutes(s) ==
    ParseInt(IF Truthy(Setting(s, "token_expiry_minutes"))
             THEN s["token_expiry_minutes"] ELSE DefaultTokenExpiry)

\* token rows still to be inserted by handlers in flight
PendingInserts ==
    Cardinality({h \in Handlers : wh[h].pc \in {"select", "updateOrder", "updateStock", "insertToken"}})
        + (IF rc.pc = "insert" THEN 1 ELSE 0)
TokenBudget == Cardinality(tokens) + PendingInserts < MaxTokens

\* the getSettings callback: API key check and amount extraction
WebhookAuth(h, apiKey, notification, ok) ==
    /\ wh[h].pc = "idle"
    /\ TokenBudget
    /\ LET amount == ExtractAmount(notification)
           next ==
             IF ~ok
             THEN [IdleHandler EXCEPT !.pc = "done", !.apiKey = apiKey,
                       !.errors = {"settings"},
                       !.res = Response(500, "Internal error")]
             ELSE IF KeyRejected(settings, apiKey)
             THEN [IdleHandler EXCEPT !.pc = "done", !.apiKey = apiKey,
                       !.settings = <<settings>>,
                       !.res = Response(401, "Unauthorized")]
             ELSE IF amount = <<0>>
             THEN [IdleHandler EXCEPT !.pc = "done", !.apiKey = apiKey,
                       !.settings = <<settings>>, !.amount = amount,
                       !.res = Response(200, "No amount detected")]
             ELSE [IdleHandler EXCEPT !.pc = "select", !.apiKey = apiKey,
                       !.settings = <<settings>>, !.amount = amount]
       IN  wh' = [wh EXCEPT ![h] = next]
    /\ UNCHANGED <<now, settings, products, orders, tokens, co, rc, dl, dl2, lastId, bot>>

\* a match query without its status filter: 'WHERE total_amount = ?'
AnyStatusMatches(rows, amount) ==
    {o \in rows : amount /= <<>> /\ o.total_amount = amount[1]}

\* a match query that accepts an overpayment: 'WHERE total_amount <= ? AND ...'
PendingMatchesUpTo(rows, amount) ==
    {o \in rows : amount /= <<>> /\ o.total_amount <= amount[1] /\ o.status = "pending"}

\* a match query that skips the orders of sold-out products
PendingMatchesInStock(rows, amount) ==
    {o \in rows : /\ amount /= <<>>
                  /\ o.total_amount = amount[1]
                  /\ o.status = "pending"
                  /\ products[o.product_id].stock > 0}

\* rows of 'WHERE total_amount = ? AND status = 'pending''
PendingMatches(rows, amount) ==
    {o \in rows : amount /= <<>> /\ o.total_amount = amount[1] /\ o.status = "pending"}

\* a tie-break the wrong way round: 'ORDER BY created_at ASC LIMIT 1'
OldestOf(rows) ==
    {o \in rows : \A q \in rows : ~TextLess(q.created_at, o.created_at)}

\* 'ORDER BY created_at DESC LIMIT 1': a row no other row is newer than
LatestOf(rows) ==
    {o \in rows : \A q \in rows : ~TextLess(o.created_at, q.created_at)}

\* the fields of the matched row the handler goes on to use
Matched(o) ==
    [id |-> o.id, invoice_number |-> o.invoice_number, product_id |-> o.product_id,
     customer_email |-> o.customer_email, customer_whatsapp |-> o.customer_whatsapp]

\* a handler that answers 404 when no order matches
NoMatchResponse404 == Response(404, "No matching order")

\* res.json({ status: 'success', message: 'No matching order' })
NoMatchResponse == Response(200, "No matching order")

\* the match query and its callback, which queues the three writes and responds
WebhookSelect(h, ok) ==
    /\ wh[h].pc = "select"
    /\ LET matches == PendingMatches(orders, wh[h].amount)
       IN  \/ /\ ~ok
              /\ wh' = [wh EXCEPT ![h].pc = "done",
                                  ![h].errors = {"select"},
                                  ![h].res = Response(500, "Database error")]
           \/ /\ ok
              /\ matches = {}
              /\ wh' = [wh EXCEPT ![h].pc = "done",
                                  ![h].res = NoMatchResponse]
           \/ /\ ok
              /\ \E o \in LatestOf(matches) :
                   wh' = [wh EXCEPT
                       ![h].pc = "updateOrder",
                       ![h].order = <<Matched(o)>>,
                       ![h].token = <<generateDownloadToken>>,
                       ![h].expiresAt =
                           <<ToISOString(now + ExpiryMinutes(wh[h].settings[1])[1])>>,
                       ![h].res = <<[status |-> 200, message |-> "Payment processed",
                                     invoice |-> <<o.invoice_number>>]>>]
    /\ UNCHANGED <<now, settings, products, orders, tokens, co, rc, dl, dl2, lastId, bot>>

\* UPDATE orders SET status = 'paid', paid_at = CURRENT_TIMESTAMP WHERE invoice_number = ?
MarkPaid(rows, invoice, t) ==
    {IF o.invoice_number = invoice
     THEN [o EXCEPT !.status = "paid", !.paid_at = <<CurrentTimestamp(t)>>]
     ELSE o : o \in rows}

WebhookUpdateOrder(h, ok) ==
    /\ wh[h].pc = "updateOrder"
    /\ orders' = IF ok THEN MarkPaid(orders, wh[h].order[1].invoice_number, now)
                       ELSE orders
    /\ wh' = [wh EXCEPT ![h].pc = "updateStock",
                        ![h].errors = IF ok THEN @ ELSE @ \cup {"updateOrder"}]
    /\ UNCHANGED <<now, settings, products, tokens, co, rc, dl, dl2, lastId, bot>>

\* a decrement without its floor: UPDATE products SET stock = stock - 1 WHERE id = ?
DecreaseStockUnguarded(rows, id) ==
    [p \in DOMAIN rows |->
        IF p = id THEN [rows[p] EXCEPT !.stock = rows[p].stock - 1] ELSE rows[p]]

\* UPDATE products SET stock = stock - 1 WHERE id = ? AND stock > 0
DecreaseStock(rows, id) ==
    [p \in DOMAIN rows |->
        IF p = id /\ rows[p].stock > 0
        THEN [rows[p] EXCEPT !.stock = rows[p].stock - 1]
        ELSE rows[p]]

\* a handler that gives up when the stock update fails
WebhookUpdateStockOrAbort(h, ok) ==
    /\ wh[h].pc = "updateStock"
    /\ products' = IF ok THEN DecreaseStock(products, wh[h].order[1].product_id)
                         ELSE products
    /\ wh' = [wh EXCEPT ![h].pc = IF ok THEN "insertToken" ELSE "done",
                        ![h].errors = IF ok THEN @ ELSE @ \cup {"updateStock"}]
    /\ UNCHANGED <<now, settings, orders, tokens, co, rc, dl, dl2, lastId, bot>>

WebhookUpdateStock(h, ok) ==
    /\ wh[h].pc = "updateStock"
    /\ products' = IF ok THEN DecreaseStock(products, wh[h].order[1].product_id)
                         ELSE products
    /\ wh' = [wh EXCEPT ![h].pc = "insertToken",
                        ![h].errors = IF ok THEN @ ELSE @ \cup {"updateStock"}]
    /\ UNCHANGED <<now, settings, orders, tokens, co, rc, dl, dl2, lastId, bot>>

\* INSERT INTO download_tokens (token, invoice_number, product_id, expires_at)
\* (created_at, a column no statement of the program reads, is left out)
TokenRow(token, invoice, product, expiresAt) ==
    [token |-> token, invoice_number |-> invoice, product_id |-> product,
     expires_at |-> expiresAt,
     is_used |-> 0, download_count |-> 0, last_download_at |-> <<>>]

InsertToken(rows, row) ==
    IF \E t \in rows : t.token = row.token THEN rows ELSE rows \cup {row}

\* the notifications the insert's callback dispatches and that fail (each is
\* logged by its .catch): the invoice email when the order has an email and
\* smtp_active is '1', the WhatsApp message when the order has a number
FailedNotifications(o, s, emailOk, whatsappOk) ==
    (IF o.customer_email /= <<>> /\ Setting(s, "smtp_active") = << <<49>> >> /\ ~emailOk
     THEN {"email"} ELSE {})
    \cup (IF o.customer_whatsapp /= <<>> /\ ~whatsappOk THEN {"whatsapp"} ELSE {})

\* the calls the insert's callback makes, in order: sendInvoiceEmail(settings,
\* order, token) when the order has an email and smtp_active is '1',
\* sendPaymentNotification(order, downloadLink) when the order has a number,
\* the link ending in '/download/' + token
Notifications(o, s, token) ==
    (IF o.customer_email /= <<>> /\ Setting(s, "smtp_active") = << <<49>> >>
     THEN <<[channel |-> "email", invoice |-> o.invoice_number, token |-> token]>>
     ELSE <<>>)
    \o (IF o.customer_whatsapp /= <<>>
        THEN <<[channel |-> "whatsapp", invoice |-> o.invoice_number, token |-> token]>>
        ELSE <<>>)

\* a callback that notifies the buyer whether or not the INSERT succeeded
WebhookInsertTokenNotifyAnyway(h, ok, emailOk, whatsappOk) ==
    /\ wh[h].pc = "insertToken"
    /\ tokens' = IF ok
                 THEN InsertToken(tokens,
                          TokenRow(wh[h].token[1], wh[h].order[1].invoice_number,
                                   wh[h].order[1].product_id, wh[h].expiresAt[1]))
                 ELSE tokens
    /\ wh' = [wh EXCEPT ![h].pc = "done",
                        ![h].errors =
                            IF ok
                            THEN @ \cup FailedNotifications(wh[h].order[1],
                                            wh[h].settings[1], emailOk, whatsappOk)
                            ELSE @ \cup {"insertToken"},
                        ![h].sent = Notifications(wh[h].order[1], wh[h].settings[1],
                                                  wh[h].token[1])]
    /\ UNCHANGED <<now, settings, products, orders, co, rc, dl, dl2, lastId, bot>>

\* the token INSERT and its callback, which dispatches the notifications
WebhookInsertToken(h, ok, emailOk, whatsappOk) ==
    /\ wh[h].pc = "insertToken"
    /\ tokens' = IF ok
                 THEN InsertToken(tokens,
                          TokenRow(wh[h].token[1], wh[h].order[1].invoice_number,
                                   wh[h].order[1].product_id, wh[h].expiresAt[1]))
                 ELSE tokens
    /\ wh' = [wh EXCEPT ![h].pc = "done",
                        ![h].errors =
                            IF ok
                            THEN @ \cup FailedNotifications(wh[h].order[1],
                                            wh[h].settings[1], emailOk, whatsappOk)
                            ELSE @ \cup {"insertToken"},
                        ![h].sent =
                            IF ok
                            THEN Notifications(wh[h].order[1], wh[h].settings[1],
                                               wh[h].token[1])
                            ELSE <<>>]
    /\ UNCHANGED <<now, settings, products, orders, co, rc, dl, dl2, lastId, bot>>

\* the request is over; its locals are dropped
WebhookDone(h) ==
    /\ wh[h].pc = "done"
    /\ wh' = [wh EXCEPT ![h] = IdleHandler]
    /\ UNCHANGED <<now, settings, products, orders, tokens, co, rc, dl, dl2, lastId, bot>>

(***************************************************************************)
(* Order creation (server POST /checkout/:productId, bot createOrder).     *)
(***************************************************************************)
IdleCheckout == [pc |-> "idle", contact |-> <<>>, product |-> <<>>]

\* an INSERT that writes the wrong status literal
OrderRowPaid(id, invoice, productId, price, uniqueCode, contact, qrisString, t) ==
    [id |-> id, invoice_number |-> invoice, product_id |-> productId,
     product_price |-> price, unique_code |-> uniqueCode,
     total_amount |-> price + uniqueCode,
     customer_email |-> contact.email, customer_whatsapp |-> contact.whatsapp,
     customer_telegram |-> contact.telegram, qris_string |-> qrisString,
     status |-> "paid", created_at |-> CurrentTimestamp(t), paid_at |-> <<>>]

\* an INSERT that stores the price as the total
OrderRowPriceOnly(id, invoice, productId, price, uniqueCode, contact, qrisString, t) ==
    [id |-> id, invoice_number |-> invoice, product_id |-> productId,
     product_price |-> price, unique_code |-> uniqueCode,
     total_amount |-> price,
     customer_email |-> contact.email, customer_whatsapp |-> contact.whatsapp,
     customer_telegram |-> contact.telegram, qris_string |-> qrisString,
     status |-> "pending", created_at |-> CurrentTimestamp(t), paid_at |-> <<>>]

\* INSERT INTO orders (...) VALUES (..., 'pending'); created_at by its default
OrderRow(id, invoice, productId, price, uniqueCode, contact, qrisString, t) ==
    [id |-> id, invoice_number |-> invoice, product_id |-> productId,
     product_price |-> price, unique_code |-> uniqueCode,
     total_amount |-> price + uniqueCode,
     customer_email |-> contact.email, customer_whatsapp |-> contact.whatsapp,
     customer_telegram |-> contact.telegram, qris_string |-> qrisString,
     status |-> "pending", created_at |-> CurrentTimestamp(t), paid_at |-> <<>>]

\* what the QRIS microservice answers: a payment string made from the
\* template and the amount
QrisServiceString(base, amount) ==
    (IF base = <<>> THEN <<>> ELSE base[1]) \o NumberToString(amount)

\* a creation that stores an empty payment string when the service fails
QrisStringOrEmpty(s, amount, qrisOk) ==
    IF qrisOk THEN <<QrisServiceString(Setting(s, "qris_base_string"), amount)>>
    ELSE << <<>> >>

\* qrisString: the service's answer, or settings.qris_base_string when the
\* call fails (NULL when the setting has no row)
QrisString(s, amount, qrisOk) ==
    IF qrisOk THEN <<QrisServiceString(Setting(s, "qris_base_string"), amount)>>
    ELSE Setting(s, "qris_base_string")

\* a table without the UNIQUE constraint
InvoiceNeverTaken(rows, invoice) == FALSE

\* invoice_number TEXT NOT NULL UNIQUE
InvoiceTaken(rows, invoice) == \E o \in rows : o.invoice_number = invoice

OrderBudget == lastId + (IF co.pc = "insert" THEN 1 ELSE 0) < MaxOrders

\* a validation that asks for any one contact channel
CheckoutSelectResponseAnyContact(p, contact, ok) ==
    IF contact.email = <<>> /\ contact.whatsapp = <<>> /\ contact.telegram = <<>>
    THEN Response(400, "Email is required")
    ELSE IF ~ok THEN Response(500, "Server error during checkout")
    ELSE IF p \notin DOMAIN products \/ ~products[p].is_active \/ products[p].stock <= 0
    THEN Response(400, "Product not available")
    ELSE <<>>

\* what the first part of the checkout handler answers; <<>> when it goes on
CheckoutSelectResponse(p, contact, ok) ==
    IF contact.email = <<>> THEN Response(400, "Email is required")
    ELSE IF ~ok THEN Response(500, "Server error during checkout")
    ELSE IF p \notin DOMAIN products \/ ~products[p].is_active \/ products[p].stock <= 0
    THEN Response(400, "Product not available")
    ELSE <<>>

\* sanitization, the email check and the product query
CheckoutSelectProduct(p, contact, ok) ==
    /\ co.pc = "idle"
    /\ OrderBudget
    /\ co' = IF CheckoutSelectResponse(p, contact, ok) = <<>>
             THEN [pc |-> "insert", contact |-> <<contact>>,
                   product |-> <<[id |-> p, price |-> products[p].price]>>]
             ELSE IdleCheckout
    /\ UNCHANGED <<now, settings, products, orders, tokens, wh, rc, dl, dl2, lastId, bot>>

\* what the second part of the checkout handler answers
CheckoutInsertResponse(seq, ok) ==
    IF ok /\ ~InvoiceTaken(orders, generateInvoiceNumber(now, seq))
    THEN <<[status |-> 200, message |-> "checkout",
            invoice |-> <<generateInvoiceNumber(now, seq)>>]>>
    ELSE Response(500, "Server error during checkout")

\* the settings read, the generated values, the QRIS call and the INSERT
CheckoutInsert(seq, uniqueCode, qrisOk, ok) ==
    /\ co.pc = "insert"
    /\ IF CheckoutInsertResponse(seq, ok)[1].status = 200
       THEN /\ orders' = orders \cup
                    {OrderRow(lastId + 1, generateInvoiceNumber(now, seq),
                              co.product[1].id, co.product[1].price, uniqueCode,
                              co.contact[1],
                              QrisString(settings, co.product[1].price + uniqueCode,
                                         qrisOk),
                              now)}
            /\ lastId' = lastId + 1
       ELSE UNCHANGED <<orders, lastId>>
    /\ co' = IdleCheckout
    /\ UNCHANGED <<now, settings, products, tokens, wh, rc, dl, dl2, bot>>

\* a creation that takes the unit off the shelf
createOrderReservingStock(p, email, seq, uniqueCode, qrisOk, ok) ==
    /\ OrderBudget
    /\ LET invoice == generateInvoiceNumber(now, seq)
           contact == [email |-> email, whatsapp |-> BotWhatsapp, telegram |-> <<>>]
       IN  IF ok /\ ~InvoiceTaken(orders, invoice)
           THEN /\ orders' = orders \cup
                        {OrderRow(lastId + 1, invoice, p, products[p].price,
                                  uniqueCode, contact,
                                  QrisString(settings, products[p].price + uniqueCode,
                                             qrisOk),
                                  now)}
                /\ lastId' = lastId + 1
                /\ products' = DecreaseStock(products, p)
           ELSE UNCHANGED <<orders, lastId, products>>
    /\ UNCHANGED <<now, settings, tokens, wh, co, rc, dl, dl2, bot>>

\* createOrder throws: the settings read or the INSERT failed
createOrderThrows(seq, ok) ==
    ~ok \/ InvoiceTaken(orders, generateInvoiceNumber(now, seq))

\* bot createOrder(product, customerEmail, customerWhatsapp): the product is the
\* row the bot listed earlier, kept in the chat session, the number is the
\* buyer's chat identity
createOrder(p, email, seq, uniqueCode, qrisOk, ok) ==
    /\ OrderBudget
    /\ LET invoice == generateInvoiceNumber(now, seq)
           contact == [email |-> email, whatsapp |-> BotWhatsapp, telegram |-> <<>>]
       IN  IF ~createOrderThrows(seq, ok)
           THEN /\ orders' = orders \cup
                        {OrderRow(lastId + 1, invoice, p, products[p].price,
                                  uniqueCode, contact,
                                  QrisString(settings, products[p].price + uniqueCode,
                                             qrisOk),
                                  now)}
                /\ lastId' = lastId + 1
           ELSE UNCHANGED <<orders, lastId>>
    /\ UNCHANGED <<now, settings, products, tokens, wh, co, rc, dl, dl2, bot>>

\* the format check of the bot's handleCheckout: the text has an '@' and a '.'
EmailLooksValid(text) ==
    /\ \E i \in 1..Len(text) : text[i] = 64
    /\ \E i \in 1..Len(text) : text[i] = 46

\* bot handleCheckout(userId, text): the format check, then createOrder for
\* the product of the chat session; a text that fails the check is answered
\* with a message and nothing else happens
handleCheckout(text, p, seq, uniqueCode, qrisOk, ok) ==
    IF EmailLooksValid(text)
    THEN createOrder(p, text, seq, uniqueCode, qrisOk, ok)
    ELSE OrderBudget /\ UNCHANGED vars

(***************************************************************************)
(* Recovery (server, POST /recover).                                       *)
(***************************************************************************)
IdleRecovery ==
    [pc |-> "idle", contact |-> <<>>, order |-> <<>>, token |-> <<>>,
     expiresAt |-> <<>>]

ToLowerCase(s) == [i \in 1..Len(s) |-> IF s[i] \in 65..90 THEN s[i] + 32 ELSE s[i]]

\* a verification that accepts the email address only
VerifiedByEmailOnly(contact, o) ==
    /\ contact.email /= <<>> /\ o.customer_email /= <<>>
    /\ ToLowerCase(contact.email) = ToLowerCase(o.customer_email)

\* at least one supplied contact matches the order's
Verified(contact, o) ==
    \/ /\ contact.email /= <<>> /\ o.customer_email /= <<>>
       /\ ToLowerCase(contact.email) = ToLowerCase(o.customer_email)
    \/ /\ contact.whatsapp /= <<>> /\ o.customer_whatsapp /= <<>>
       /\ contact.whatsapp = o.customer_whatsapp
    \/ /\ contact.telegram /= <<>> /\ o.customer_telegram /= <<>>
       /\ ToLowerCase(contact.telegram) = ToLowerCase(o.customer_telegram)

\* a handler that issues tokens for orders that are not paid yet
RecoverSelectErrorNoStatus(invoice, contact, ok, found) ==
    IF invoice = <<>> THEN <<"Invoice number is required">>
    ELSE IF ~ok \/ found = <<>> THEN <<"Order not found">>
    ELSE IF ~Verified(contact, found[1])
    THEN <<"Contact information does not match order records">>
    ELSE <<>>

\* the error the recover page is rendered with after the order query; <<>> when
\* the handler goes on to issue a token for the row o it found
RecoverSelectError(invoice, contact, ok, found) ==
    IF invoice = <<>> THEN <<"Invoice number is required">>
    ELSE IF ~ok \/ found = <<>> THEN <<"Order not found">>
    ELSE IF ~Verified(contact, found[1])
    THEN <<"Contact information does not match order records">>
    ELSE IF found[1].status /= "paid"
    THEN <<"Order is not paid yet. Please complete payment first.">>
    ELSE <<>>

\* 'SELECT * FROM orders WHERE invoice_number = ?': the row, or <<>>
OrderByInvoice(rows, invoice) ==
    IF \E o \in rows : o.invoice_number = invoice
    THEN <<CHOOSE o \in rows : o.invoice_number = invoice>>
    ELSE <<>>

\* the settings read, the order query and the checks of its callback
RecoverSelect(invoice, contact, ok) ==
    /\ rc.pc = "idle"
    /\ TokenBudget
    /\ LET found == OrderByInvoice(orders, invoice)
       IN  rc' = IF RecoverSelectError(invoice, contact, ok, found) = <<>>
                 THEN [pc |-> "insert", contact |-> <<contact>>,
                       order |-> <<Matched(found[1])>>,
                       token |-> <<generateDownloadToken>>,
                       expiresAt |-> <<ToISOString(now + ExpiryMinutes(settings)[1])>>]
                 ELSE IdleRecovery
    /\ UNCHANGED <<now, settings, products, orders, tokens, wh, co, dl, dl2, lastId, bot>>

\* the token INSERT and its callback
RecoverInsert(ok) ==
    /\ rc.pc = "insert"
    /\ tokens' = IF ok
                 THEN InsertToken(tokens,
                          TokenRow(rc.token[1], rc.order[1].invoice_number,
                                   rc.order[1].product_id, rc.expiresAt[1]))
                 ELSE tokens
    /\ rc' = IdleRecovery
    /\ UNCHANGED <<now, settings, products, orders, wh, co, dl, dl2, lastId, bot>>

(***************************************************************************)
(* Download (server, GET /download/:token).                                *)
(***************************************************************************)
IdleDownload == [pc |-> "idle", token |-> <<>>, product |-> <<>>, res |-> <<>>]

\* new Date(isoString) of a string toISOString wrote, in minutes
ParseISOString(str) == TimestampMinutes(str)

\* the rows of 'download_tokens dt JOIN orders o ON dt.invoice_number =
\* o.invoice_number JOIN products p ON dt.product_id = p.id WHERE dt.token = ?'
TokenData(token) ==
    UNION { { [dt |-> t, order_status |-> o.status] :
                o \in {y \in orders : y.invoice_number = t.invoice_number} } :
            t \in {x \in tokens : x.token = token /\ x.product_id \in DOMAIN products} }

\* a handler without the check of the order's status
DownloadSelectResponseNoStatus(token, ok) ==
    IF ~ok \/ TokenData(token) = {} THEN <<"redirect /expired-link">>
    ELSE LET tokenData == CHOOSE r \in TokenData(token) : TRUE
         IN  IF now > ParseISOString(tokenData.dt.expires_at)
             THEN <<"redirect /expired-link">>
             ELSE <<>>

\* a handler that sends an unpaid order's token to the expired-link page
DownloadSelectResponseNoForbidden(token, ok) ==
    IF ~ok \/ TokenData(token) = {} THEN <<"redirect /expired-link">>
    ELSE LET tokenData == CHOOSE r \in TokenData(token) : TRUE
         IN  IF now > ParseISOString(tokenData.dt.expires_at)
                \/ tokenData.order_status /= "paid"
             THEN <<"redirect /expired-link">>
             ELSE <<>>

\* a handler that checks the expiry of unused tokens only
DownloadSelectResponseNoExpiryOnceUsed(token, ok) ==
    IF ~ok \/ TokenData(token) = {} THEN <<"redirect /expired-link">>
    ELSE LET tokenData == CHOOSE r \in TokenData(token) : TRUE
         IN  IF tokenData.dt.is_used = 0 /\ now > ParseISOString(tokenData.dt.expires_at)
             THEN <<"redirect /expired-link">>
             ELSE IF tokenData.order_status /= "paid"
             THEN <<"403 Order is not paid yet">>
             ELSE <<>>

\* a handler that enforces single use
DownloadSelectResponseSingleUse(token, ok) ==
    IF ~ok \/ TokenData(token) = {} THEN <<"redirect /expired-link">>
    ELSE LET tokenData == CHOOSE r \in TokenData(token) : TRUE
         IN  IF now > ParseISOString(tokenData.dt.expires_at) \/ tokenData.dt.is_used = 1
             THEN <<"redirect /expired-link">>
             ELSE IF tokenData.order_status /= "paid"
             THEN <<"403 Order is not paid yet">>
             ELSE <<>>

\* a handler that tells an unknown token from an expired one
DownloadSelectResponseUnknownIs404(token, ok) ==
    IF ~ok \/ TokenData(token) = {} THEN <<"404 Token not found">>
    ELSE LET tokenData == CHOOSE r \in TokenData(token) : TRUE
         IN  IF now > ParseISOString(tokenData.dt.expires_at)
             THEN <<"redirect /expired-link">>
             ELSE IF tokenData.order_status /= "paid"
             THEN <<"403 Order is not paid yet">>
             ELSE <<>>

\* what the handler answers after its query; <<>> when it goes on to the UPDATE
DownloadSelectResponse(token, ok) ==
    IF ~ok \/ TokenData(token) = {} THEN <<"redirect /expired-link">>
    ELSE LET tokenData == CHOOSE r \in TokenData(token) : TRUE
         IN  IF now > ParseISOString(tokenData.dt.expires_at)
             THEN <<"redirect /expired-link">>
             ELSE IF tokenData.order_status /= "paid"
             THEN <<"403 Order is not paid yet">>
             ELSE <<>>

DownloadSelect(token, ok) ==
    /\ dl.pc = "idle"
    /\ DownloadSelectResponse(token, ok) = <<>> =>
         \A t \in tokens : t.token = token => t.download_count < MaxDownloads
    /\ dl' = IF DownloadSelectResponse(token, ok) = <<>>
             THEN [pc |-> "update", token |-> <<token>>,
                   product |-> <<(CHOOSE r \in TokenData(token) : TRUE).dt.product_id>>,
                   res |-> <<>>]
             ELSE [pc |-> "done", token |-> <<token>>, product |-> <<>>,
                   res |-> DownloadSelectResponse(token, ok)]
    /\ UNCHANGED <<now, settings, products, orders, tokens, wh, co, rc, dl2, lastId, bot>>

\* a count update that also renews the token: '..., expires_at = <now + 60 min>'
CountDownloadAndRenew(rows, token, t) ==
    {IF r.token = token
     THEN [r EXCEPT !.download_count = r.download_count + 1,
                    !.last_download_at = <<CurrentTimestamp(t)>>,
                    !.is_used = 1,
                    !.expires_at = ToISOString(t + MinutesPerHour)]
     ELSE r : r \in rows}

\* UPDATE download_tokens SET download_count = download_count + 1,
\* last_download_at = CURRENT_TIMESTAMP, is_used = 1 WHERE token = ?
CountDownload(rows, token, t) ==
    {IF r.token = token
     THEN [r EXCEPT !.download_count = r.download_count + 1,
                    !.last_download_at = <<CurrentTimestamp(t)>>,
                    !.is_used = 1]
     ELSE r : r \in rows}

\* what is served after the UPDATE, whether or not it failed
DownloadServed(productId) ==
    IF products[productId].download_link /= <<>>
    THEN <<"redirect", products[productId].download_link>>
    ELSE IF products[productId].file_path /= <<>>
    THEN <<"download", products[productId].file_path>>
    ELSE <<"404 Download file not found">>

DownloadUpdate(ok) ==
    /\ dl.pc = "update"
    /\ tokens' = IF ok THEN CountDownload(tokens, dl.token[1], now) ELSE tokens
    /\ dl' = [dl EXCEPT !.pc = "done", !.res = DownloadServed(dl.product[1])]
    /\ UNCHANGED <<now, settings, products, orders, wh, co, rc, dl2, lastId, bot>>

\* the request is over; its locals are dropped
DownloadDone ==
    /\ dl.pc = "done"
    /\ dl' = IdleDownload
    /\ UNCHANGED <<now, settings, products, orders, tokens, wh, co, rc, dl2, lastId, bot>>

\* a second request to GET /download/:token, in flight next to the first:
\* its locals are the token and the row tokenData its query returned
IdleSecondDownload == [pc |-> "idle", token |-> <<>>, data |-> <<>>, res |-> <<>>]

SecondDownloadSelect(token, ok) ==
    /\ dl2.pc = "idle"
    /\ DownloadSelectResponse(token, ok) = <<>> =>
         \A t \in tokens : t.token = token => t.download_count < MaxDownloads
    /\ dl2' = IF DownloadSelectResponse(token, ok) = <<>>
              THEN [pc |-> "update", token |-> <<token>>,
                    data |-> <<CHOOSE r \in TokenData(token) : TRUE>>,
                    res |-> <<>>]
              ELSE [pc |-> "done", token |-> <<token>>, data |-> <<>>,
                    res |-> DownloadSelectResponse(token, ok)]
    /\ UNCHANGED <<now, settings, products, orders, tokens, wh, co, rc, dl, lastId, bot>>

\* a count update that writes back the count the request's query read:
\* 'SET download_count = <tokenData.download_count + 1>, ...'
SecondDownloadUpdateFromRead(ok) ==
    /\ dl2.pc = "update"
    /\ tokens' = IF ok
                 THEN {IF r.token = dl2.token[1]
                       THEN [r EXCEPT !.download_count = dl2.data[1].dt.download_count + 1,
                                      !.last_download_at = <<CurrentTimestamp(now)>>,
                                      !.is_used = 1]
                       ELSE r : r \in tokens}
                 ELSE tokens
    /\ dl2' = [dl2 EXCEPT !.pc = "done",
                          !.res = DownloadServed(dl2.data[1].dt.product_id)]
    /\ UNCHANGED <<now, settings, products, orders, wh, co, rc, dl, lastId, bot>>

SecondDownloadUpdate(ok) ==
    /\ dl2.pc = "update"
    /\ tokens' = IF ok THEN CountDownload(tokens, dl2.token[1], now) ELSE tokens
    /\ dl2' = [dl2 EXCEPT !.pc = "done",
                          !.res = DownloadServed(dl2.data[1].dt.product_id)]
    /\ UNCHANGED <<now, settings, products, orders, wh, co, rc, dl, lastId, bot>>

(***************************************************************************)
(* WhatsApp bot: the chat session of one buyer (bot-whatsapp.js).          *)
(***************************************************************************)
\* session.data, replaced as a whole by every updateUserSession: {} is the
\* record with every field empty
EmptyData == [categories |-> <<>>, category |-> <<>>, products |-> <<>>, product |-> <<>>]

\* getUserSession(userId) of a buyer the bot has not seen: { state: 'menu',
\* data: {} }; pc is the stage of the buyer's handleCheckout in flight
NewSession == [state |-> "menu", data |-> EmptyData, pc |-> "idle"]

\* the rows initDatabase seeds into categories, by id
DefaultCategories == <<"E-Book", "Video Course", "Akun Premium", "Template", "Software">>

\* botController.getCategories()
getCategories == DefaultCategories

\* the category of the products of the catalogue
ProductCategory == [p \in ProductIds \cup InactiveProducts |-> "E-Book"]

\* a product row as the bot lists it and keeps it in the session
Listed(p) == [id |-> p, price |-> products[p].price, stock |-> products[p].stock]

\* the products on sale, in the order of their ids
RECURSIVE ListedProducts(_, _)
ListedProducts(ids, category) ==
    IF ids = <<>> THEN <<>>
    ELSE (IF products[Head(ids)].is_active /\ ProductCategory[Head(ids)] = category
          THEN <<Listed(Head(ids))>> ELSE <<>>)
         \o ListedProducts(Tail(ids), category)

\* botController.getProductsByCategory(categoryId)
getProductsByCategory(category) == ListedProducts(<<"p1", "p2", "p3">>, category)

\* botController.searchProducts(query): the queries of the model match every
\* product on sale
searchProducts(query) == ListedProducts(<<"p1", "p2", "p3">>, "E-Book")

\* what the buyer types: 'menu', 'MENU', '1', '2', '3', '4', '5', 'beli',
\* 'a@x.y', 'abc'
BotTexts ==
    { <<109, 101, 110, 117>>, <<77, 69, 78, 85>>, <<49>>, <<50>>, <<51>>, <<52>>, <<53>>,
      <<98, 101, 108, 105>>, BotEmail, <<97, 98, 99>> }

\* String.prototype.trim()
RECURSIVE TrimEnd(_)
TrimEnd(s) ==
    IF s /= <<>> /\ IsSpace(s[Len(s)]) THEN TrimEnd(SubSeq(s, 1, Len(s) - 1)) ELSE s
Trim(s) == TrimEnd(SkipWhitespace(s))

\* String.prototype.startsWith(prefix)
StartsWith(s, prefix) ==
    Len(s) >= Len(prefix) /\ SubSeq(s, 1, Len(prefix)) = prefix

\* lowerText === 'menu' || lowerText === 'start' || lowerText === '/start'
IsMenuCommand(text) ==
    ToLowerCase(Trim(text)) \in
        { <<109, 101, 110, 117>>, <<115, 116, 97, 114, 116>>, <<47, 115, 116, 97, 114, 116>> }

\* lowerText === 'bantuan' || lowerText === 'help' || lowerText === '4'
IsHelpCommand(text) ==
    ToLowerCase(Trim(text)) \in
        { <<98, 97, 110, 116, 117, 97, 110>>, <<104, 101, 108, 112>>, <<52>> }

\* lowerText.startsWith('cek ') || lowerText.startsWith('inv-')
IsCheckOrderCommand(text) ==
    \/ StartsWith(ToLowerCase(Trim(text)), <<99, 101, 107, 32>>)
    \/ StartsWith(ToLowerCase(Trim(text)), <<105, 110, 118, 45>>)

\* parseInt(text.trim()) - 1 as an index from 1 into a list of length n:
\* <<k>> when choice >= 0 && choice < n, else <<>>
Choice(text, n) ==
    LET parsed == ParseInt(Trim(text))
    IN  IF parsed /= <<>> /\ parsed[1] - 1 >= 0 /\ parsed[1] - 1 < n
        THEN parsed ELSE <<>>

\* handleMenuState: '1' or 'katalog' lists the categories, '2' or 'cari'
\* asks for a query, anything else leaves the session
handleMenuState(s, text) ==
    IF Trim(text) \in { <<49>>, <<107, 97, 116, 97, 108, 111, 103>> }
    THEN [s EXCEPT !.state = "category_list",
                   !.data = [EmptyData EXCEPT !.categories = getCategories]]
    ELSE IF Trim(text) \in { <<50>>, <<99, 97, 114, 105>> }
    THEN [s EXCEPT !.state = "search", !.data = EmptyData]
    ELSE s

handleCategorySelection(s, text) ==
    LET choice == Choice(text, Len(s.data.categories))
    IN  IF choice /= <<>>
        THEN [s EXCEPT !.state = "product_list",
                       !.data = [EmptyData EXCEPT
                                   !.category = <<s.data.categories[choice[1]]>>,
                                   !.products =
                                       getProductsByCategory(s.data.categories[choice[1]])]]
        ELSE s

handleProductSelection(s, text) ==
    LET choice == Choice(text, Len(s.data.products))
    IN  IF choice /= <<>> /\ s.data.products[choice[1]].stock > 0
        THEN [s EXCEPT !.state = "product_detail",
                       !.data = [EmptyData EXCEPT
                                   !.product = <<s.data.products[choice[1]]>>]]
        ELSE s

\* handleProductAction: 'beli' or 'buy' moves on to the checkout and keeps
\* the session's data
handleProductAction(s, text) ==
    IF ToLowerCase(Trim(text)) \in { <<98, 101, 108, 105>>, <<98, 117, 121>> }
    THEN [s EXCEPT !.state = "checkout"]
    ELSE s

handleSearch(s, text) ==
    IF Len(Trim(text)) < 3 \/ searchProducts(Trim(text)) = <<>> THEN s
    ELSE [s EXCEPT !.state = "product_list",
                   !.data = [EmptyData EXCEPT !.products = searchProducts(Trim(text))]]

\* the message goes to handleCheckout: no command matched and the session is
\* in state 'checkout'
RoutedToCheckout(s, text) ==
    /\ ~IsMenuCommand(text) /\ ~IsHelpCommand(text) /\ ~IsCheckOrderCommand(text)
    /\ s.state = "checkout"

\* the session after handleMessage handled a text that does not go to
\* handleCheckout: the commands first, then the handler of the session's state
SessionAfter(s, text) ==
    IF IsMenuCommand(text) THEN [s EXCEPT !.state = "menu", !.data = EmptyData]
    ELSE IF IsHelpCommand(text) \/ IsCheckOrderCommand(text) THEN s
    ELSE IF s.state = "menu" THEN handleMenuState(s, text)
    ELSE IF s.state = "category_list" THEN handleCategorySelection(s, text)
    ELSE IF s.state = "product_list" THEN handleProductSelection(s, text)
    ELSE IF s.state = "product_detail" THEN handleProductAction(s, text)
    ELSE IF s.state = "search" THEN handleSearch(s, text)
    ELSE s

\* handleCheckout(userId, text) for the session: the format check, the product
\* of the session, then createOrder for it; when createOrder throws the buyer
\* is told so and the session stays; else the invoice is still to be sent
handleCheckoutOfSession(text, seq, uniqueCode, qrisOk, ok) ==
    IF ~EmailLooksValid(Trim(text))
    THEN UNCHANGED vars
    ELSE IF bot.data.product = <<>>
    THEN /\ bot' = [bot EXCEPT !.state = "menu", !.data = EmptyData]
         /\ UNCHANGED <<now, settings, products, orders, tokens, wh, co, rc, dl, dl2, lastId>>
    ELSE LET product == bot.data.product[1]
             contact == [email |-> Trim(text), whatsapp |-> BotWhatsapp,
                         telegram |-> <<>>]
         IN  /\ orders' =
                   IF createOrderThrows(seq, ok) THEN orders
                   ELSE orders \cup
                          {OrderRow(lastId + 1, generateInvoiceNumber(now, seq),
                                    product.id, product.price, uniqueCode, contact,
                                    QrisString(settings, product.price + uniqueCode, qrisOk),
                                    now)}
             /\ lastId' = IF createOrderThrows(seq, ok) THEN lastId ELSE lastId + 1
             /\ bot' = IF createOrderThrows(seq, ok) THEN bot
                       ELSE [bot EXCEPT !.pc = "invoice"]
             /\ UNCHANGED <<now, settings, products, tokens, wh, co, rc, dl, dl2>>

\* handleMessage(msg) of the buyer: one checkout in flight at a time
handleMessage(text, seq, uniqueCode, qrisOk, ok) ==
    IF RoutedToCheckout(bot, text)
    THEN /\ bot.pc = "idle"
         /\ OrderBudget
         /\ handleCheckoutOfSession(text, seq, uniqueCode, qrisOk, ok)
    ELSE /\ bot' = SessionAfter(bot, text)
         /\ UNCHANGED <<now, settings, products, orders, tokens, wh, co, rc, dl, dl2, lastId>>

\* the rest of handleCheckout after createOrder returned: the QR image and the
\* two messages, then updateUserSession(userId, { state: 'menu', data: {} });
\* when one of them throws, the catch tells the buyer and the session stays
sendInvoice(ok) ==
    /\ bot.pc = "invoice"
    /\ bot' = IF ok THEN [bot EXCEPT !.pc = "idle", !.state = "menu", !.data = EmptyData]
                    ELSE [bot EXCEPT !.pc = "idle"]
    /\ UNCHANGED <<now, settings, products, orders, tokens, wh, co, rc, dl, dl2, lastId>>

(***************************************************************************)
(* The system.                                                             *)
(***************************************************************************)
Init ==
    /\ now = StartTime
    /\ settings = DefaultSettings
    /\ products = InitialProducts
    /\ orders = {}
    /\ tokens = {}
    /\ wh = [h \in Handlers |-> IdleHandler]
    /\ co = IdleCheckout
    /\ rc = IdleRecovery
    /\ dl = IdleDownload
    /\ dl2 = IdleSecondDownload
    /\ bot = NewSession
    /\ lastId = 0

RecoverInvoiceInputs ==
    {<<>>, generateInvoiceNumber(StartTime, 1)} \cup {o.invoice_number : o \in orders}

\* :token of a download request: a string that is no token, or a token
DownloadTokenInputs == {TokenString(MaxTokens + 1)} \cup {t.token : t \in tokens}

\* the same, of requests for tokens that were not redeemed before
FirstDownloadInputs ==
    {TokenString(MaxTokens + 1)} \cup {t.token : t \in {x \in tokens : x.is_used = 0}}

\* the writes that change the token lifetime
ExpiryWrites == {w \in SettingWrites : w[1] = "token_expiry_minutes" /\ w[2] /= <<>>}

\* the steps of webhook handler h, for requests presenting one of `keys`, and
\* statements that succeed (TRUE) or fail (FALSE) as `outcomes` allows
Webhook(h, keys, outcomes) ==
    \/ \E k \in keys, n \in NotificationInputs, ok \in outcomes :
         WebhookAuth(h, k, n, ok)
    \/ \E ok \in outcomes : WebhookSelect(h, ok)
    \/ \E ok \in outcomes : WebhookUpdateOrder(h, ok)
    \/ \E ok \in outcomes : WebhookUpdateStock(h, ok)
    \/ \E ok, emailOk, whatsappOk \in outcomes :
         WebhookInsertToken(h, ok, emailOk, whatsappOk)
    \/ WebhookDone(h)

\* the life of an order: placed on the site or by the bot, paid by one
\* webhook delivery at a time, swept, redeemed; any statement may fail
Next ==
    \/ Tick
    \/ \E ok \in BOOLEAN : cleanupExpiredOrders(ok)
    \/ Webhook("w1", ApiKeyInputs, BOOLEAN)
    \/ \E p \in OrderedProducts, c \in ContactInputs, ok \in BOOLEAN :
         CheckoutSelectProduct(p, c, ok)
    \/ \E u \in UniqueCodes, ok \in BOOLEAN : CheckoutInsert(lastId + 1, u, TRUE, ok)
    \/ \E p \in OrderedProducts, u \in UniqueCodes, ok \in BOOLEAN :
         createOrder(p, BotEmail, lastId + 1, u, TRUE, ok)
    \/ \E t \in FirstDownloadInputs, ok \in BOOLEAN : DownloadSelect(t, ok)
    \/ \E ok \in BOOLEAN : DownloadUpdate(ok)
    \/ DownloadDone

Spec == Init /\ [][Next]_vars

\* two authenticated webhook deliveries at a time, no statement failing,
\* against the orders the bot creates
NextRace ==
    \/ Tick
    \/ \E h \in Handlers : Webhook(h, {<<DefaultWebhookKey>>}, {TRUE})
    \/ \E p \in ProductIds, u \in UniqueCodes, ok \in BOOLEAN :
         createOrder(p, BotEmail, lastId + 1, u, TRUE, ok)

SpecRace == Init /\ [][NextRace]_vars

\* the writes that leave the token lifetime alone
AdminWrites == {w \in SettingWrites : w[1] /= "token_expiry_minutes"}

\* one webhook delivery at a time, while an administrator changes the settings
NextAdmin ==
    \/ \E w \in AdminWrites : updateSetting(w[1], w[2])
    \/ Webhook("w1", ApiKeyInputs, BOOLEAN)
    \/ \E p \in OrderedProducts, u \in UniqueCodes, ok \in BOOLEAN :
         createOrder(p, BotEmail, lastId + 1, u, TRUE, ok)

SpecAdmin == Init /\ [][NextAdmin]_vars

\* no request in flight
Quiet ==
    /\ \A h \in Handlers : wh[h].pc = "idle"
    /\ co.pc = "idle" /\ rc.pc = "idle" /\ dl.pc = "idle" /\ dl2.pc = "idle" /\ bot.pc = "idle"

\* one authenticated delivery at a time, no statement failing, and nothing
\* else happening while it runs
NextSolo ==
    \/ Quiet /\ Tick
    \/ Quiet /\ \E w \in SettingWrites : updateSetting(w[1], w[2])
    \/ Quiet /\ \E p \in ProductIds, u \in UniqueCodes :
                    createOrder(p, BotEmail, lastId + 1, u, TRUE, TRUE)
    \/ Webhook("w1", {<<DefaultWebhookKey>>}, {TRUE})

SpecSolo == Init /\ [][NextSolo]_vars

\* tokens redeemed any number of times, for orders that were paid, left
\* pending by a failed status update, or swept, while the clock advances
NextRedeem ==
    \/ Tick
    \/ cleanupExpiredOrders(TRUE)
    \/ Webhook("w1", {<<DefaultWebhookKey>>}, BOOLEAN)
    \/ \E p \in OrderedProducts, u \in UniqueCodes : createOrder(p, BotEmail, lastId + 1, u, TRUE, TRUE)
    \/ \E t \in DownloadTokenInputs : DownloadSelect(t, TRUE)
    \/ \E ok \in BOOLEAN : DownloadUpdate(ok)
    \/ DownloadDone

SpecRedeem == Init /\ [][NextRedeem]_vars

\* tokens over their lifetime, no statement failing: issued by deliveries and
\* by recovery and redeemed while the token lifetime is reconfigured and the
\* clock advances
NextLifetime ==
    \/ Tick
    \/ \E w \in ExpiryWrites : updateSetting(w[1], w[2])
    \/ Webhook("w1", {<<DefaultWebhookKey>>}, {TRUE})
    \/ \E p \in OrderedProducts, u \in UniqueCodes : createOrder(p, BotEmail, lastId + 1, u, TRUE, TRUE)
    \/ \E i \in RecoverInvoiceInputs, c \in ContactInputs : RecoverSelect(i, c, TRUE)
    \/ RecoverInsert(TRUE)
    \/ \E t \in DownloadTokenInputs : DownloadSelect(t, TRUE)
    \/ DownloadUpdate(TRUE)
    \/ DownloadDone

SpecLifetime == Init /\ [][NextLifetime]_vars

\* recovery requests next to deliveries whose token insert may fail, while the
\* token lifetime is reconfigured and the clock advances
NextRecover ==
    \/ Tick
    \/ \E w \in ExpiryWrites : updateSetting(w[1], w[2])
    \/ \E n \in NotificationInputs : WebhookAuth("w1", <<DefaultWebhookKey>>, n, TRUE)
    \/ WebhookSelect("w1", TRUE)
    \/ WebhookUpdateOrder("w1", TRUE)
    \/ WebhookUpdateStock("w1", TRUE)
    \/ \E ok \in BOOLEAN : WebhookInsertToken("w1", ok, TRUE, TRUE)
    \/ WebhookDone("w1")
    \/ \E p \in OrderedProducts, u \in UniqueCodes : createOrder(p, BotEmail, lastId + 1, u, TRUE, TRUE)
    \/ \E i \in RecoverInvoiceInputs, c \in RecoveryContactInputs, ok \in BOOLEAN :
         RecoverSelect(i, c, ok)
    \/ \E ok \in BOOLEAN : RecoverInsert(ok)

SpecRecover == Init /\ [][NextRecover]_vars

\* order creation through the web checkout and the bot, with every kind of
\* request body, generated invoice numbers that may repeat and statements
\* that may fail, next to deliveries that pay the orders
NextCheckout ==
    \/ Tick
    \/ Webhook("w1", {<<DefaultWebhookKey>>}, {TRUE})
    \/ \E p \in CheckoutProductInputs, c \in CheckoutContactInputs, ok \in BOOLEAN :
         CheckoutSelectProduct(p, c, ok)
    \/ \E seq \in InvoiceSequences, u \in UniqueCodes, qrisOk, ok \in BOOLEAN :
         CheckoutInsert(seq, u, qrisOk, ok)
    \/ \E e \in BotEmailInputs, p \in ProductIds, seq \in InvoiceSequences,
          u \in UniqueCodes, qrisOk, ok \in BOOLEAN :
         handleCheckout(e, p, seq, u, qrisOk, ok)

SpecCheckout == Init /\ [][NextCheckout]_vars

\* order creation while the QRIS service goes up and down and the
\* administrator changes the merchant template
NextQris ==
    \/ Tick
    \/ \E w \in QrisWrites : updateSetting(w[1], w[2])
    \/ \E p \in OrderedProducts, c \in ContactInputs : CheckoutSelectProduct(p, c, TRUE)
    \/ \E u \in UniqueCodes, qrisOk \in BOOLEAN :
         CheckoutInsert(lastId + 1, u, qrisOk, TRUE)
    \/ \E p \in ProductIds, u \in UniqueCodes, qrisOk \in BOOLEAN :
         handleCheckout(BotEmail, p, lastId + 1, u, qrisOk, TRUE)

SpecQris == Init /\ [][NextQris]_vars

\* the life of an order row, no statement failing: made by the web checkout
\* or the bot, paid by a delivery, named in recovery requests, or swept
NextLedger ==
    \/ Tick
    \/ cleanupExpiredOrders(TRUE)
    \/ Webhook("w1", {<<DefaultWebhookKey>>}, {TRUE})
    \/ \E p \in OrderedProducts, c \in ContactInputs : CheckoutSelectProduct(p, c, TRUE)
    \/ \E u \in UniqueCodes, qrisOk \in BOOLEAN :
         CheckoutInsert(lastId + 1, u, qrisOk, TRUE)
    \/ \E p \in ProductIds, u \in UniqueCodes, qrisOk \in BOOLEAN :
         createOrder(p, BotEmail, lastId + 1, u, qrisOk, TRUE)
    \/ \E i \in RecoverInvoiceInputs, c \in ContactInputs : RecoverSelect(i, c, TRUE)
    \/ RecoverInsert(TRUE)

SpecLedger == Init /\ [][NextLedger]_vars

\* two deliveries, one per handler, whose statements interleave in every way,
\* against orders made before the first of them arrives; no statement fails
NextPair ==
    \/ Tick
    \/ Quiet /\ \E p \in ProductIds, u \in UniqueCodes :
                    createOrder(p, BotEmail, lastId + 1, u, TRUE, TRUE)
    \/ \E h \in Handlers, n \in NotificationInputs :
         WebhookAuth(h, <<DefaultWebhookKey>>, n, TRUE)
    \/ \E h \in Handlers : WebhookSelect(h, TRUE)
    \/ \E h \in Handlers : WebhookUpdateOrder(h, TRUE)
    \/ \E h \in Handlers : WebhookUpdateStock(h, TRUE)
    \/ \E h \in Handlers : WebhookInsertToken(h, TRUE, TRUE, TRUE)

SpecPair == Init /\ [][NextPair]_vars

(***************************************************************************)
(* Properties.                                                             *)
(***************************************************************************)
\* the age of an order row, in minutes
Age(o) == now - TimestampMinutes(o.created_at)

TokensOf(o) == {t \in tokens : t.invoice_number = o.invoice_number}

\* a step of webhook handler h from stage `from` to stage `to`
WebhookStep(h, from, to) == wh[h].pc = from /\ wh'[h].pc = to

\* C1: two interleaved deliveries of the same amount act as one: they never
\* both match the same order, an order never has more than one token, and
\* stock is never decremented more often than orders were paid.
C1_ConcurrentDeliveriesActAsOne ==
    /\ \A h1, h2 \in Handlers :
         (h1 /= h2 /\ wh[h1].order /= <<>> /\ wh[h2].order /= <<>>)
            => wh[h1].order[1].id /= wh[h2].order[1].id
    /\ \A o \in orders : Cardinality(TokensOf(o)) <= 1
    /\ \A p \in ProductIds :
         InitialProducts[p].stock - products[p].stock
            <= Cardinality({o \in orders : o.product_id = p /\ o.status = "paid"})

\* C2: a delivery whose amount already turned an order paid in an earlier,
\* completed delivery changes no order row, no product stock and no token.
C2_RedeliveryIsNoOp ==
    [][\A h \in Handlers :
         (/\ wh'[h] /= wh[h]
          /\ wh[h].order /= <<>>
          /\ \E o \in orders : /\ o.status = "paid"
                               /\ o.total_amount = wh[h].amount[1]
                               /\ o.id /= wh[h].order[1].id)
            => UNCHANGED <<orders, products, tokens>>]_vars

\* C3: every row of download_tokens references an order that exists and is paid.
C3_TokenReferencesPaidOrder ==
    \A t \in tokens :
        \E o \in orders : o.invoice_number = t.invoice_number /\ o.status = "paid"

\* C4: once a handler that answered 'Payment processed' with invoice i has run
\* all its statements, order i exists and is paid with a paid timestamp.
C4_AcknowledgedPaymentIsRecorded ==
    \A h \in Handlers :
        (/\ wh[h].pc = "done"
         /\ wh[h].res /= <<>>
         /\ wh[h].res[1].message = "Payment processed")
            => \E o \in orders : /\ o.invoice_number = wh[h].res[1].invoice[1]
                                 /\ o.status = "paid"
                                 /\ o.paid_at /= <<>>

\* C5: the rows the sweep's DELETE selects at time `now` include every pending
\* order created more than an hour earlier and no pending order created less
\* than an hour earlier.
C5_SweepSelectsByAge ==
    \A o \in {x \in orders : x.status = "pending"} :
        LET swept == o \in ExpiredOrders(orders, ToISOString(now - MinutesPerHour))
        IN  /\ Age(o) > MinutesPerHour => swept
            /\ Age(o) < MinutesPerHour => ~swept

\* C6: no step, the sweep's included, removes an order that is paid.
C6_PaidOrderIsNeverDeleted ==
    [][\A o \in orders :
         o.status = "paid" => \E q \in orders' : q.id = o.id]_vars

\* the sweep ran between a handler's match query and its status update, made
\* after the clock advanced, while an older paid order was in the table
C6_Witness ==
    /\ wh["w1"].pc = "updateOrder"
    /\ wh["w1"].expiresAt = <<ToISOString(now + ExpiryMinutes(settings)[1])>>
    /\ now > StartTime
    /\ \A o \in orders : o.id /= wh["w1"].order[1].id
    /\ \E o \in orders : o.status = "paid" /\ Age(o) > MinutesPerHour

\* C7: order status is monotone: a row is inserted as pending, the only change
\* of status is pending -> paid in the webhook's status update, and a paid row
\* stays paid.
C7_StatusIsMonotone ==
    [][/\ \A o \in orders, q \in orders' :
            q.id = o.id =>
                \/ q.status = o.status
                \/ /\ o.status = "pending"
                   /\ q.status = "paid"
                   /\ \E h \in Handlers : WebhookStep(h, "updateOrder", "updateStock")
       /\ \A q \in orders' :
            (\A o \in orders : o.id /= q.id) => q.status = "pending"]_vars

\* a paid order whose token was redeemed after the clock advanced, next to a
\* pending order
C7_Witness ==
    /\ now > StartTime
    /\ \E o \in orders : o.status = "pending"
    /\ \E o \in orders :
         /\ o.status = "paid"
         /\ \E t \in TokensOf(o) : t.download_count > 0

\* the locals of a handler that rejected its request: 401, nothing extracted,
\* nothing matched, no statement left to run
Rejected(h) ==
    /\ wh[h].pc = "done"
    /\ wh[h].res = Response(401, "Unauthorized")
    /\ wh[h].amount = <<>>
    /\ wh[h].order = <<>>
    /\ wh[h].token = <<>>

\* C8 as stated: for every configured key, a request presenting a different
\* key (or none) is rejected with 401 and matches nothing.
C8_EveryMismatchIsRejected ==
    \A h \in Handlers :
        (/\ wh[h].settings /= <<>>
         /\ wh[h].apiKey /= Setting(wh[h].settings[1], "webhook_api_key"))
            => Rejected(h)

\* C8: for every non-empty configured key the handler read, a request
\* presenting a different key (or none) is rejected with 401 and matches
\* nothing.
C8_MismatchOfNonEmptyKeyIsRejected ==
    \A h \in Handlers :
        (/\ wh[h].settings /= <<>>
         /\ Truthy(Setting(wh[h].settings[1], "webhook_api_key"))
         /\ wh[h].apiKey /= Setting(wh[h].settings[1], "webhook_api_key"))
            => Rejected(h)

\* a request without the header was rejected against a key the administrator
\* had set, with a pending order in the table
C8_Witness ==
    /\ Rejected("w1")
    /\ wh["w1"].apiKey = <<>>
    /\ wh["w1"].settings[1]["webhook_api_key"] = <<107>>
    /\ \E o \in orders : o.status = "pending"

\* the request of handler h presented the configured key
Authenticated(h) == wh[h].apiKey = Setting(settings, "webhook_api_key")

C10_OnlyPendingMatchTransitions ==
    [][\A h \in Handlers :
         WebhookStep(h, "updateOrder", "updateStock") =>
            /\ Cardinality(orders \ orders') <= 1
            /\ \A o \in orders :
                 (o.total_amount /= wh[h].amount[1] \/ o.status /= "pending")
                    => o \in orders']_vars

\* C11: when several pending orders share the delivered amount, the delivery
\* matches one that no other such order is newer than, and its status update
\* leaves every other order as it was.
C11_MostRecentPendingWins ==
    [][\A h \in Handlers :
         /\ WebhookStep(h, "select", "updateOrder") =>
              \E o \in orders :
                 /\ o.id = wh'[h].order[1].id
                 /\ o.status = "pending"
                 /\ o.total_amount = wh[h].amount[1]
                 /\ \A q \in orders :
                      (q.status = "pending" /\ q.total_amount = wh[h].amount[1])
                         => TimestampMinutes(q.created_at) <= TimestampMinutes(o.created_at)
         /\ WebhookStep(h, "updateOrder", "updateStock") =>
              \A q \in orders :
                 q.invoice_number /= wh[h].order[1].invoice_number => q \in orders']_vars

\* the newer of two pending orders with the same total was matched and marked
\* paid, the older one is still pending
C11_Witness ==
    /\ wh["w1"].pc = "updateStock"
    /\ \E o, q \in orders :
         /\ o.id = wh["w1"].order[1].id
         /\ o.status = "paid"
         /\ q.status = "pending"
         /\ q.total_amount = o.total_amount
         /\ TimestampMinutes(q.created_at) < TimestampMinutes(o.created_at)

\* the minutes a token issued under settings s is to live: the setting's
\* number, 60 when the setting is absent or empty
ConfiguredMinutes(s) ==
    IF "token_expiry_minutes" \in DOMAIN s /\ s["token_expiry_minutes"] /= <<>>
    THEN DigitsValue(s["token_expiry_minutes"])
    ELSE 60

\* C12: a delivery that runs alone and without failure and matches a pending
\* order ends with that order paid with paid_at set, exactly one token bound to
\* the order's invoice and product and expiring token_expiry_minutes (60 when
\* not set) after issuance, and its stock update lowers a positive stock by one.
C12_MatchedDeliveryEffects ==
    /\ [](\A h \in Handlers :
            (/\ wh[h].pc = "done"
             /\ wh[h].res /= <<>>
             /\ wh[h].res[1].message = "Payment processed")
               => /\ \E o \in orders :
                       /\ o.invoice_number = wh[h].res[1].invoice[1]
                       /\ o.status = "paid"
                       /\ o.paid_at = <<CurrentTimestamp(now)>>
                       /\ Cardinality(TokensOf(o)) = 1
                       /\ \A t \in TokensOf(o) :
                            /\ t.token = wh[h].token[1]
                            /\ t.product_id = o.product_id
                            /\ TimestampMinutes(t.expires_at)
                                   = now + ConfiguredMinutes(settings))
    /\ [][\A h \in Handlers :
            WebhookStep(h, "updateStock", "insertToken") =>
               LET p == wh[h].order[1].product_id
               IN  products[p].stock > 0 => products'[p].stock = products[p].stock - 1]_vars

\* a delivery completed for an order of the product with stock 2 while the
\* expiry setting was 30 minutes
C12_Witness ==
    /\ wh["w1"].pc = "done"
    /\ wh["w1"].res /= <<>>
    /\ wh["w1"].res[1].message = "Payment processed"
    /\ wh["w1"].order[1].product_id = "p2"
    /\ products["p2"].stock = InitialProducts["p2"].stock - 1
    /\ settings["token_expiry_minutes"] = <<51, 48>>
    /\ now > StartTime

\* C13: a delivery that matched and in which nothing but the stock update,
\* the email or the WhatsApp notification failed ends with its order paid and
\* its token in the table; the stock update, failing or not, changes no order
\* and no token and is followed by the token insert, whose callback (the
\* notifications) changes no order and removes no token.
C13_BestEffortFailuresKeepPayment ==
    /\ [](\A h \in Handlers :
            (/\ wh[h].pc = "done"
             /\ wh[h].res /= <<>>
             /\ wh[h].res[1].message = "Payment processed"
             /\ wh[h].errors \subseteq {"updateStock", "email", "whatsapp"})
                => /\ \E o \in orders :
                        /\ o.invoice_number = wh[h].order[1].invoice_number
                        /\ o.status = "paid"
                        /\ o.paid_at /= <<>>
                   /\ \E t \in tokens :
                        /\ t.token = wh[h].token[1]
                        /\ t.invoice_number = wh[h].order[1].invoice_number)
    /\ [][\A h \in Handlers :
            /\ (wh[h].pc = "updateStock" /\ wh'[h] /= wh[h]) =>
                  /\ wh'[h].pc = "insertToken"
                  /\ UNCHANGED <<orders, tokens>>
            /\ WebhookStep(h, "insertToken", "done") =>
                  /\ orders' = orders
                  /\ tokens \subseteq tokens']_vars

\* the stock update and both notifications of a delivery failed
C13_Witness ==
    /\ wh["w1"].pc = "done"
    /\ wh["w1"].errors = {"updateStock", "email", "whatsapp"}
    /\ products = InitialProducts

\* C14: every product's stock is at least 0 in every state, and a handler's
\* stock update lowers the matched product's positive stock by one or leaves
\* it, leaves a stock of 0, and touches no other product.
C14_StockNeverNegative ==
    /\ [](\A p \in ProductIds : products[p].stock >= 0)
    /\ [][\A h \in Handlers :
            WebhookStep(h, "updateStock", "insertToken") =>
               LET p == wh[h].order[1].product_id
               IN  /\ \/ products' = products
                      \/ /\ products[p].stock > 0
                         /\ products' = [products EXCEPT ![p].stock = @ - 1]
                   /\ products[p].stock = 0 => products' = products]_vars

\* two deliveries for orders of the product with stock 1 have both run their
\* stock update
C14_Witness ==
    /\ \A h \in Handlers :
         /\ wh[h].pc \in {"insertToken", "done"}
         /\ wh[h].order /= <<>>
         /\ wh[h].order[1].product_id = "p1"
    /\ products["p1"].stock = 0

\* no pending order has the amount a handler extracted (NaN matches nothing)
NoPendingFor(amount) ==
    \/ amount = <<>>
    \/ \A o \in orders : o.status = "pending" => o.total_amount /= amount[1]

\* C15: a delivery from which no amount is extracted ends at once, answered
\* 200, and a delivery whose amount no pending order has ends with its match
\* query, answered 200 when the query succeeds; neither changes an order, a
\* product or a token.
C15_NoMatchIsNoOp ==
    [][\A h \in Handlers :
         /\ (wh[h].pc = "idle" /\ wh'[h].amount = <<0>>) =>
               /\ wh'[h].pc = "done"
               /\ wh'[h].res = Response(200, "No amount detected")
               /\ UNCHANGED <<orders, products, tokens>>
         /\ (wh[h].pc = "select" /\ wh'[h] /= wh[h] /\ NoPendingFor(wh[h].amount)) =>
               /\ wh'[h].pc = "done"
               /\ wh'[h].errors = {} => wh'[h].res = Response(200, "No matching order")
               /\ UNCHANGED <<orders, products, tokens>>]_vars

\* a delivery for an amount the orders of the run can have found no match
\* after the only order was swept
C15_Witness ==
    /\ wh["w1"].pc = "done"
    /\ wh["w1"].res = Response(200, "No matching order")
    /\ wh["w1"].amount \in {<<50001>>, <<50002>>}
    /\ lastId = 1
    /\ orders = {}

\* the order a token is bound to exists and is paid
BoundOrderPaid(token) ==
    \E t \in tokens, o \in orders :
        t.token = token /\ o.invoice_number = t.invoice_number /\ o.status = "paid"

\* the order a token is bound to exists
BoundOrderExists(token) ==
    \E t \in tokens, o \in orders :
        t.token = token /\ o.invoice_number = t.invoice_number

\* the token of a download request has expired
Expired(token) ==
    \E t \in tokens : t.token = token /\ now > TimestampMinutes(t.expires_at)

\* a download response that hands out the product
Served(res) == res /= <<>> /\ res[1] \in {"redirect", "download"}

\* the download handler answers the query of a request for a token of the table
RedeemStep ==
    /\ dl.pc = "idle"
    /\ dl'.pc /= "idle"
    /\ \E t \in tokens : t.token = dl'.token[1]

ExpiredLink == <<"redirect /expired-link">>
Forbidden == <<"403 Order is not paid yet">>

\* C16: a download request that gets past its checks, or was answered with
\* the file or the external link, is for a token whose order exists and is paid.
C16_UnpaidOrderIsNeverServed ==
    (dl.pc = "update" \/ (dl.pc = "done" /\ Served(dl.res)))
        => BoundOrderPaid(dl.token[1])

\* an unexpired token whose order is not paid was presented and refused
C16_Witness ==
    /\ dl.pc = "done"
    /\ ~Served(dl.res)
    /\ \E t \in tokens : t.token = dl.token[1]
    /\ ~Expired(dl.token[1])
    /\ ~BoundOrderPaid(dl.token[1])

\* C17 as stated: a request for a token whose order is not paid is answered
\* 403, whatever the token's expiry and whether or not the order row exists.
C17_UnpaidOrderIsForbidden ==
    [][(RedeemStep /\ ~BoundOrderPaid(dl'.token[1]))
          => (dl'.pc = "done" /\ dl'.res = Forbidden)]_vars

\* C17: a request for an unexpired token whose order exists and is not paid
\* is answered 403, which is not the expired-link answer; a request for a
\* token that has expired or whose order row is gone is answered with the
\* expired-link redirect.
C17_UnpaidOrderIsForbiddenOrExpired ==
    [][(RedeemStep /\ ~BoundOrderPaid(dl'.token[1]))
          => /\ dl'.pc = "done"
             /\ dl'.res = IF BoundOrderExists(dl'.token[1]) /\ ~Expired(dl'.token[1])
                          THEN Forbidden ELSE ExpiredLink
             /\ Forbidden /= ExpiredLink]_vars

\* a request for the unexpired token of a pending order was answered 403
C17_Witness ==
    /\ dl.pc = "done"
    /\ dl.res = Forbidden
    /\ BoundOrderExists(dl.token[1])
    /\ ~BoundOrderPaid(dl.token[1])

\* C18: a request for a token made after its expires_at is answered with the
\* expired-link redirect and changes no token, however often the token was
\* redeemed before.
C18_ExpiredTokenIsRefused ==
    [][(RedeemStep /\ Expired(dl'.token[1]))
          => /\ dl'.pc = "done"
             /\ dl'.res = ExpiredLink
             /\ tokens' = tokens]_vars

\* a token that was redeemed before its expiry was presented after it and
\* refused
C18_Witness ==
    /\ dl.pc = "done"
    /\ dl.res = ExpiredLink
    /\ Expired(dl.token[1])
    /\ \E t \in tokens :
         t.token = dl.token[1] /\ t.is_used = 1 /\ t.download_count > 0

\* C19: a request for an unexpired token of a paid order gets past the
\* checks whatever the token's is_used and download_count, and is answered
\* with the product's link or file.
C19_UseCountNeverRefuses ==
    [][/\ (RedeemStep /\ BoundOrderPaid(dl'.token[1]) /\ ~Expired(dl'.token[1]))
           => dl'.pc = "update"
       /\ (dl.pc = "update" /\ dl'.pc = "done") => Served(dl'.res)]_vars

\* a token that was redeemed before is being redeemed again
C19_Witness ==
    /\ dl.pc = "update"
    /\ \E t \in tokens :
         t.token = dl.token[1] /\ t.is_used = 1 /\ t.download_count > 0

\* C20: every step keeps every token row with its token, invoice, product and
\* expires_at, and a token that passes the download checks still passes them
\* after any step that does not advance the clock.
C20_TokenExpiryIsFixed ==
    [][\A t \in tokens :
         /\ \E u \in tokens' :
               /\ u.token = t.token
               /\ u.expires_at = t.expires_at
               /\ u.invoice_number = t.invoice_number
               /\ u.product_id = t.product_id
         /\ (now' = now /\ DownloadSelectResponse(t.token, TRUE) = <<>>)
               => DownloadSelectResponse(t.token, TRUE)' = <<>>]_vars

\* two tokens of one order with different expiry times, one of them redeemed,
\* after the token lifetime was set to 30 minutes
C20_Witness ==
    /\ settings["token_expiry_minutes"] = <<51, 48>>
    /\ \E t, u \in tokens :
         /\ t.token /= u.token
         /\ t.invoice_number = u.invoice_number
         /\ t.expires_at /= u.expires_at
         /\ t.download_count > 0

\* two strings are equal up to the case of their letters
SameIgnoringCase(a, b) ==
    /\ Len(a) = Len(b)
    /\ \A i \in 1..Len(a) :
         \/ a[i] = b[i]
         \/ a[i] \in 65..90 /\ b[i] = a[i] + 32
         \/ b[i] \in 65..90 /\ a[i] = b[i] + 32

\* a supplied contact value is the one stored on the order
ContactMatches(c, o) ==
    \/ c.email /= <<>> /\ SameIgnoringCase(c.email, o.customer_email)
    \/ c.whatsapp /= <<>> /\ c.whatsapp = o.customer_whatsapp
    \/ c.telegram /= <<>> /\ SameIgnoringCase(c.telegram, o.customer_telegram)

\* the order a recovery request names exists, is paid and has contact c
Recoverable(invoice, c) ==
    \E o \in orders :
        o.invoice_number = invoice /\ o.status = "paid" /\ ContactMatches(c, o)

\* C21: a recovery request goes on to its token insert only when the order it
\* names exists, is paid and has one of the supplied contact values, every
\* other request being turned away after the order query; the insert adds at
\* most one token, bound to that order, and no recovery step changes an
\* order, a product or a setting; tokens are inserted by recovery and by the
\* webhook's token insert only.
C21_RecoveryIssuesOnlyForVerifiedPaidOrder ==
    /\ [](\A i \in RecoverInvoiceInputs, c \in RecoveryContactInputs :
            (i = <<>> \/ ~Recoverable(i, c))
               => RecoverSelectError(i, c, TRUE, OrderByInvoice(orders, i)) /= <<>>)
    /\ [][/\ (rc.pc = "idle" /\ rc'.pc = "insert") =>
               /\ Recoverable(rc'.order[1].invoice_number, rc'.contact[1])
               /\ UNCHANGED <<orders, products, tokens, settings>>
          /\ (rc.pc = "insert" /\ rc'.pc = "idle") =>
               /\ Recoverable(rc.order[1].invoice_number, rc.contact[1])
               /\ tokens \subseteq tokens'
               /\ Cardinality(tokens' \ tokens) <= 1
               /\ \A t \in tokens' \ tokens :
                    /\ t.invoice_number = rc.order[1].invoice_number
                    /\ t.product_id = rc.order[1].product_id
               /\ UNCHANGED <<orders, products, settings>>
          /\ tokens' /= tokens =>
               \/ rc.pc = "insert" /\ rc'.pc = "idle"
               \/ \E h \in Handlers : WebhookStep(h, "insertToken", "done")]_vars

\* recovery issued a second token for a paid order, while another order is
\* pending and has no token
C21_Witness ==
    /\ rc.pc = "idle"
    /\ \E o, q \in orders :
         /\ o.status = "paid"
         /\ Cardinality(TokensOf(o)) = 2
         /\ q.status = "pending"
         /\ TokensOf(q) = {}

Available(p) ==
    p \in DOMAIN products /\ products[p].is_active /\ products[p].stock > 0

\* the order rows a step inserts
NewOrders == {q \in orders' : \A o \in orders : o.id /= q.id}

NoContact(c) == c.email = <<>> /\ c.whatsapp = <<>> /\ c.telegram = <<>>

\* C23 as stated: a checkout for a product on sale goes through whenever one
\* of email, number and chat handle is given, and is turned away only when
\* all three are empty.
C23_AnyContactSuffices ==
    \A p \in CheckoutProductInputs, c \in CheckoutContactInputs :
        Available(p) =>
            (CheckoutSelectResponse(p, c, TRUE) /= <<>> <=> NoContact(c))

\* C23: a web checkout for a product on sale goes through exactly when the
\* email is given, and is answered 400 'Email is required' when it is not,
\* whatever the number and the chat handle; when its statements succeed and
\* the invoice number is free, it inserts one pending order with the contact
\* given; no order, of the web checkout or of the bot, is without an email.
C23_EmailIsRequired ==
    /\ [](\A p \in CheckoutProductInputs, c \in CheckoutContactInputs :
            Available(p) =>
                CheckoutSelectResponse(p, c, TRUE)
                    = IF c.email = <<>> THEN Response(400, "Email is required")
                      ELSE <<>>)
    /\ [](\A o \in orders : o.customer_email /= <<>>)
    /\ [][/\ (co.pc = "idle" /\ co'.pc = "insert") =>
               /\ co'.contact[1].email /= <<>>
               /\ UNCHANGED <<orders, products, tokens, lastId>>
          /\ \A seq \in InvoiceSequences, u \in UniqueCodes, qrisOk \in BOOLEAN :
               (/\ CheckoutInsert(seq, u, qrisOk, TRUE)
                /\ ~InvoiceTaken(orders, generateInvoiceNumber(now, seq)))
                  => /\ Cardinality(NewOrders) = 1
                     /\ \A q \in NewOrders :
                          /\ q.status = "pending"
                          /\ q.product_id = co.product[1].id
                          /\ q.customer_email = co.contact[1].email
                          /\ q.customer_whatsapp = co.contact[1].whatsapp]_vars

\* the web checkout inserted an order for a buyer who gave the email alone
C23_Witness ==
    /\ co.pc = "idle"
    /\ \E o \in orders :
         /\ o.status = "pending"
         /\ o.customer_email /= <<>>
         /\ o.customer_whatsapp = <<>>

\* C24: a step that inserts an order inserts it for a product that, at that
\* step, has a row, is active and has stock > 0.
C24_NoOrderForUnavailableProduct ==
    [][\A q \in NewOrders : Available(q.product_id)]_vars

\* C25: every order has total_amount = product_price + unique_code, and no
\* step changes the price, the code or the total of an order.
C25_TotalIsPricePlusCode ==
    /\ [](\A o \in orders : o.total_amount = o.product_price + o.unique_code)
    /\ [][\A o \in orders, q \in orders' :
            q.id = o.id =>
                /\ q.total_amount = o.total_amount
                /\ q.product_price = o.product_price
                /\ q.unique_code = o.unique_code]_vars

\* an order was paid and got a second token from recovery, and the other
\* order of the run was swept
C25_Witness ==
    /\ lastId = 2
    /\ Cardinality(orders) = 1
    /\ \E o \in orders :
         /\ o.status = "paid"
         /\ o.unique_code = 2
         /\ Cardinality(TokensOf(o)) = 2

\* C26: a step that inserts an order, and every step of the web checkout,
\* leaves the products as they are; the only step that changes a stock is a
\* webhook handler's stock update.
C26_OnlyThePaymentMatchChangesStock ==
    [][/\ NewOrders /= {} => products' = products
       /\ co' /= co => products' = products
       /\ products' /= products =>
            \E h \in Handlers : WebhookStep(h, "updateStock", "insertToken")]_vars

\* two pending orders for the product with one unit, one of the web checkout
\* and one of the bot, and the unit still in stock
C26_Witness ==
    /\ products = InitialProducts
    /\ \E o, q \in orders :
         /\ o.id /= q.id
         /\ o.product_id = "p1" /\ q.product_id = "p1"
         /\ o.status = "pending" /\ q.status = "pending"
         /\ o.customer_whatsapp = <<>>
         /\ q.customer_whatsapp = BotWhatsapp

\* C27: no two orders have the same invoice number; an order creation whose
\* generated invoice number is taken is answered 500 by the web checkout and
\* throws in the bot, and inserts, changes and removes no order.
C27_InvoiceNumbersAreUnique ==
    /\ [](\A o, q \in orders : o.invoice_number = q.invoice_number => o = q)
    /\ [](\A seq \in InvoiceSequences :
            InvoiceTaken(orders, generateInvoiceNumber(now, seq)) =>
                /\ CheckoutInsertResponse(seq, TRUE)
                       = Response(500, "Server error during checkout")
                /\ createOrderThrows(seq, TRUE))
    /\ [][\A seq \in InvoiceSequences, u \in UniqueCodes, qrisOk, ok \in BOOLEAN :
            (/\ InvoiceTaken(orders, generateInvoiceNumber(now, seq))
             /\ \/ CheckoutInsert(seq, u, qrisOk, ok)
                \/ \E e \in BotEmailInputs, p \in ProductIds :
                     handleCheckout(e, p, seq, u, qrisOk, ok))
               => UNCHANGED <<orders, lastId>>]_vars

\* a web checkout is about to insert on a day of which the table already
\* holds an invoice number, here that of sequence 2, made by the bot
C27_Witness ==
    /\ co.pc = "insert"
    /\ \E o \in orders :
         /\ o.invoice_number = generateInvoiceNumber(now, 2)
         /\ o.customer_whatsapp = BotWhatsapp
    /\ InvoiceTaken(orders, generateInvoiceNumber(now, 2))
    /\ ~InvoiceTaken(orders, generateInvoiceNumber(now, 1))

\* C28: an order creation whose QRIS call fails, and whose statements
\* succeed, inserts one pending order with total_amount = price + unique code
\* and with the configured qris_base_string as its payment string.
C28_QrisFailureFallsBack ==
    [][\A u \in UniqueCodes :
         (\/ CheckoutInsert(lastId + 1, u, FALSE, TRUE)
          \/ \E p \in ProductIds : handleCheckout(BotEmail, p, lastId + 1, u, FALSE, TRUE))
            => /\ Cardinality(NewOrders) = 1
               /\ \A q \in NewOrders :
                    /\ q.status = "pending"
                    /\ q.total_amount = products[q.product_id].price + u
                    /\ q.total_amount = q.product_price + q.unique_code
                    /\ q.qris_string = <<settings["qris_base_string"]>>]_vars

\* an order made while the service was down holds the template the
\* administrator configured, next to an order that holds the service's string
C28_Witness ==
    \E o, q \in orders :
        /\ o.status = "pending"
        /\ o.qris_string = <<settings["qris_base_string"]>>
        /\ settings["qris_base_string"] /= DefaultQrisBase
        /\ q.qris_string
               = <<QrisServiceString(<<DefaultQrisBase>>, q.total_amount)>>

\* C29: in every state, for every key and value an administrator writes, the
\* table after updateSetting(k, v) has v under k for getSetting and for
\* getSettings, whether or not k had a row.
C29_WritesAreUpserts ==
    \A w \in SettingWrites :
        /\ getSetting(UpdatedSettings(settings, w[1], w[2]), w[1]) = <<w[2]>>
        /\ Setting(UpdatedSettings(settings, w[1], w[2]), w[1]) = <<w[2]>>

\* what a comparison of two runs looks at: the status of every order, the
\* stock of every product and the number of tokens of every order
View(rows, stock, ntokens) ==
    [status |-> {<<o.id, o.status>> : o \in rows},
     stock |-> [p \in DOMAIN stock |-> stock[p].stock],
     ntokens |-> ntokens]

\* the outcomes of one delivery of `amount` run alone, from the order rows,
\* products and token counts of S: the match query, then the three writes
Deliver(S, amount) ==
    IF PendingMatches(S.rows, amount) = {} THEN {S}
    ELSE { [rows |-> MarkPaid(S.rows, o.invoice_number, now),
            stock |-> DecreaseStock(S.stock, o.product_id),
            ntokens |-> [S.ntokens EXCEPT ![o.id] = @ + 1]] :
           o \in LatestOf(PendingMatches(S.rows, amount)) }

\* the views two deliveries leave when the second starts after the first ended
Sequentially(S, first, second) ==
    { View(T.rows, T.stock, T.ntokens) :
        T \in UNION { Deliver(M, second) : M \in Deliver(S, first) } }

\* the store before the two deliveries of a run: its orders, all pending, the
\* initial stock and no token
BeforeDeliveries ==
    [rows |-> {[o EXCEPT !.status = "pending", !.paid_at = <<>>] : o \in orders},
     stock |-> InitialProducts,
     ntokens |-> [i \in {o.id : o \in orders} |-> 0]]

\* C30: when two deliveries carrying different amounts have both ended,
\* however their statements were interleaved, the order statuses, the stock
\* and the number of tokens of every order are those of running the first
\* and then the second, and those of running the second and then the first.
C30_DifferentAmountsAreIndependent ==
    (/\ wh["w1"].pc = "done" /\ wh["w2"].pc = "done"
     /\ wh["w1"].amount /= wh["w2"].amount)
        => LET final == View(orders, products,
                             [i \in {o.id : o \in orders} |->
                                 Cardinality(TokensOf(CHOOSE o \in orders : o.id = i))])
           IN  /\ final \in Sequentially(BeforeDeliveries, wh["w1"].amount,
                                         wh["w2"].amount)
               /\ final \in Sequentially(BeforeDeliveries, wh["w2"].amount,
                                         wh["w1"].amount)

\* two deliveries of different amounts have both paid an order of the product
\* with one unit
C30_Witness ==
    /\ \A h \in Handlers :
         /\ wh[h].pc = "done"
         /\ wh[h].res /= <<>>
         /\ wh[h].res[1].message = "Payment processed"
         /\ wh[h].order[1].product_id = "p1"
    /\ wh["w1"].amount /= wh["w2"].amount
    /\ products["p1"].stock = 0
    /\ \A o \in orders : o.status = "paid" /\ Cardinality(TokensOf(o)) = 1

\* a string that is in no row of download_tokens
UnknownToken(token) == \A t \in tokens : t.token /= token

\* C31: a download request for a string that is no token and a request for a
\* token that has expired get the same answer, the redirect to the
\* expired-link page, and neither changes anything but the request's own
\* locals.
C31_UnknownAndExpiredLookAlike ==
    /\ [](\A u \in DownloadTokenInputs, t \in DownloadTokenInputs :
            (UnknownToken(u) /\ Expired(t))
                => /\ DownloadSelectResponse(u, TRUE) = ExpiredLink
                   /\ DownloadSelectResponse(u, TRUE) = DownloadSelectResponse(t, TRUE))
    /\ [][(dl.pc = "idle" /\ dl'.pc /= "idle"
              /\ (UnknownToken(dl'.token[1]) \/ Expired(dl'.token[1])))
            => /\ dl'.pc = "done"
               /\ dl'.res = ExpiredLink
               /\ <<now, settings, products, orders, tokens, lastId>>' =
                     <<now, settings, products, orders, tokens, lastId>>]_vars

\* a string that is no token was presented and refused while the table holds
\* an expired token of a paid order
C31_Witness ==
    /\ dl.pc = "done"
    /\ dl.res = ExpiredLink
    /\ UnknownToken(dl.token[1])
    /\ \E t \in tokens : Expired(t.token) /\ BoundOrderPaid(t.token)

\* notification bodies that exercise the order of the extraction:
\* [amountDetected, amount, text]
ExtractionInputs ==
    { \* both numeric fields and a text
      [amountDetected |-> <<50001>>, amount |-> <<50002>>,
       \* 'Rp 50.123'
       text |-> << <<82, 112, 32, 53, 48, 46, 49, 50, 51>> >>],
      \* amountDetected 0 (falsy), amount, and a text
      [amountDetected |-> <<0>>, amount |-> <<50002>>,
       text |-> << <<82, 112, 32, 53, 48, 46, 49, 50, 51>> >>],
      \* 'Rp 50.123'
      [amountDetected |-> <<>>, amount |-> <<>>,
       text |-> << <<82, 112, 32, 53, 48, 46, 49, 50, 51>> >>],
      \* 'Rp 50,123'
      [amountDetected |-> <<>>, amount |-> <<>>,
       text |-> << <<82, 112, 32, 53, 48, 44, 49, 50, 51>> >>],
      \* 'Rp50.001'
      [amountDetected |-> <<>>, amount |-> <<>>,
       text |-> << <<82, 112, 53, 48, 46, 48, 48, 49>> >>],
      \* 'Rp ,', from which parseInt yields NaN
      [amountDetected |-> <<>>, amount |-> <<>>, text |-> << <<82, 112, 32, 44>> >>],
      \* 'ok', a text without the currency pattern
      [amountDetected |-> <<>>, amount |-> <<>>, text |-> << <<111, 107>> >>],
      [amountDetected |-> <<>>, amount |-> <<>>, text |-> <<>>] }

\* one authenticated delivery at a time of the notifications above, against
\* the orders the bot creates, no statement failing
NextExtract ==
    \/ \E p \in OrderedProducts, u \in UniqueCodes :
         createOrder(p, BotEmail, lastId + 1, u, TRUE, TRUE)
    \/ \E n \in ExtractionInputs : WebhookAuth("w1", <<DefaultWebhookKey>>, n, TRUE)
    \/ WebhookSelect("w1", TRUE)
    \/ WebhookUpdateOrder("w1", TRUE)
    \/ WebhookUpdateStock("w1", TRUE)
    \/ WebhookInsertToken("w1", TRUE, TRUE, TRUE)
    \/ WebhookDone("w1")

SpecExtract == Init /\ [][NextExtract]_vars

\* a numeric field of a notification holds an amount
HoldsAmount(field) == field /= <<>> /\ field[1] > 0

\* the extraction found no amount: nothing (0) or not a number (<<>>)
NoAmount(a) == a = <<>> \/ a[1] = 0

\* the text of a notification with the separator c between '50' and '123'
RupiahText(c) == <<82, 112, 32, 53, 48, c, 49, 50, 51>>

\* C32: the extracted amount is amountDetected when that field holds an
\* amount, else amount when that field holds one, and comes from the text only
\* when neither does; 'Rp 50.123' and 'Rp 50,123' both give 50123; and a
\* delivery from which no amount is extracted is answered 'No amount detected'
\* at once, without going on to the match query.
C32_ExtractionOrder ==
    /\ [](\A n \in ExtractionInputs :
            /\ HoldsAmount(n.amountDetected) => ExtractAmount(n) = n.amountDetected
            /\ (~HoldsAmount(n.amountDetected) /\ HoldsAmount(n.amount))
                   => ExtractAmount(n) = n.amount
            /\ (HoldsAmount(n.amountDetected) \/ HoldsAmount(n.amount))
                   => ExtractAmount(n) = ExtractAmount([n EXCEPT !.text = <<>>])
            /\ n.text \in {<<RupiahText(46)>>, <<RupiahText(44)>>}
                   /\ ~HoldsAmount(n.amountDetected) /\ ~HoldsAmount(n.amount)
                   => ExtractAmount(n) = <<50123>>)
    /\ [][\A n \in ExtractionInputs :
            (WebhookAuth("w1", <<DefaultWebhookKey>>, n, TRUE) /\ NoAmount(ExtractAmount(n)))
                => /\ wh'["w1"].pc = "done"
                   /\ wh'["w1"].res = Response(200, "No amount detected")]_vars

\* the orders of the product that starts with one unit
LastUnitOrders == {o \in orders : o.product_id = "p1"}

\* C33: a delivery whose amount a pending order has matches such an order
\* whatever the product's stock, marks it paid and inserts a token for it; the
\* stock update takes one unit from a positive stock and leaves a stock of 0;
\* and once two orders of the product with one unit are both paid and no
\* delivery is in flight, each of them has a token and the stock is 0.
C33_MatchIgnoresStock ==
    /\ []((/\ \A h \in Handlers : wh[h].pc \in {"idle", "done"}
           /\ Cardinality(LastUnitOrders) = 2
           /\ \A o \in LastUnitOrders : o.status = "paid")
             => /\ \A o \in LastUnitOrders : TokensOf(o) /= {}
                /\ products["p1"].stock = 0)
    /\ [][\A h \in Handlers :
            /\ (wh[h].pc = "select" /\ wh'[h] /= wh[h] /\ ~NoPendingFor(wh[h].amount))
                 => /\ wh'[h].pc = "updateOrder"
                    /\ \E o \in orders :
                         /\ o.invoice_number = wh'[h].order[1].invoice_number
                         /\ o.status = "pending"
                         /\ o.total_amount = wh[h].amount[1]
            /\ WebhookStep(h, "updateOrder", "updateStock")
                 => \A o \in orders' :
                       o.invoice_number = wh[h].order[1].invoice_number
                           => o.status = "paid"
            /\ WebhookStep(h, "updateStock", "insertToken")
                 => LET p == wh[h].order[1].product_id
                    IN  products'[p].stock =
                           IF products[p].stock > 0 THEN products[p].stock - 1 ELSE 0
            /\ WebhookStep(h, "insertToken", "done")
                 => \E t \in tokens' \ tokens :
                       t.invoice_number = wh[h].order[1].invoice_number]_vars

\* two orders of the product with one unit are paid and have a token each,
\* the stock is 0, and the second delivery has just ended
C33_Witness ==
    /\ Cardinality(LastUnitOrders) = 2
    /\ \A o \in LastUnitOrders : o.status = "paid" /\ Cardinality(TokensOf(o)) = 1
    /\ products["p1"].stock = 0
    /\ \E h \in Handlers :
         /\ wh[h].pc = "done"
         /\ wh[h].order /= <<>>
         /\ wh[h].order[1].product_id = "p1"

\* the periodic sweep against orders the bot creates and deliveries that pay
\* them, statements failing or not; orders are placed before the clock's last
\* value, so that every order of a run grows older than an hour
NextSweep ==
    \/ Tick
    \/ \E ok \in BOOLEAN : cleanupExpiredOrders(ok)
    \/ Webhook("w1", {<<DefaultWebhookKey>>}, BOOLEAN)
    \/ /\ now < StartTime + MaxTicks * TickMinutes
       /\ \E p \in OrderedProducts, u \in UniqueCodes, ok \in BOOLEAN :
            createOrder(p, BotEmail, lastId + 1, u, TRUE, ok)

SpecSweep == Init /\ [][NextSweep]_vars

\* setInterval(cleanupExpiredOrders, 30 * 60 * 1000): the timer keeps firing
\* as the wall clock advances, and the DELETE of a pass succeeds again and
\* again
FairSweep ==
    SpecSweep /\ WF_vars(Tick) /\ WF_vars(cleanupExpiredOrders(TRUE))

\* the order with this id is in the table and pending
PendingOrder(id) == \E o \in orders : o.id = id /\ o.status = "pending"

\* C34: with the timer firing, every pending order is eventually paid or
\* deleted; a pending order older than an hour is among the rows the sweep's
\* DELETE selects, and a pass whose DELETE succeeds leaves no such order.
C34_PendingOrderIsPaidOrSwept ==
    /\ \A id \in 1..MaxOrders : PendingOrder(id) ~> ~PendingOrder(id)
    /\ [](\A o \in orders :
            (o.status = "pending" /\ Age(o) > MinutesPerHour)
                => o \in ExpiredOrders(orders, ToISOString(now - MinutesPerHour)))
    /\ [][cleanupExpiredOrders(TRUE)
            => \A o \in orders' :
                  ~(o.status = "pending" /\ Age(o) > MinutesPerHour)]_vars

\* a delivery matched an order that was pending and 90 minutes old, and the
\* sweep removed the order before the delivery's status update
C34_Witness ==
    /\ wh["w1"].pc = "updateOrder"
    /\ wh["w1"].expiresAt = <<ToISOString(StartTime + TickMinutes + MinutesPerHour)>>
    /\ now = StartTime + TickMinutes
    /\ orders = {}

\* a catalogue in which product p2 has neither a file nor an external link
\* (file_path and download_link are both nullable columns)
ProductsWithoutFile == [InitialProducts EXCEPT !["p2"].download_link = <<>>]

InitWithoutFile ==
    /\ now = StartTime
    /\ settings = DefaultSettings
    /\ products = ProductsWithoutFile
    /\ orders = {}
    /\ tokens = {}
    /\ wh = [h \in Handlers |-> IdleHandler]
    /\ co = IdleCheckout
    /\ rc = IdleRecovery
    /\ dl = IdleDownload
    /\ dl2 = IdleSecondDownload
    /\ bot = NewSession
    /\ lastId = 0

\* tokens of orders of either product redeemed any number of times while the
\* clock advances; the status update of a delivery and the count update of a
\* redemption fail or succeed
NextDeliver ==
    \/ Tick
    \/ \E p \in ProductIds, u \in UniqueCodes : createOrder(p, BotEmail, lastId + 1, u, TRUE, TRUE)
    \/ \E n \in NotificationInputs : WebhookAuth("w1", <<DefaultWebhookKey>>, n, TRUE)
    \/ WebhookSelect("w1", TRUE)
    \/ \E ok \in BOOLEAN : WebhookUpdateOrder("w1", ok)
    \/ WebhookUpdateStock("w1", TRUE)
    \/ WebhookInsertToken("w1", TRUE, TRUE, TRUE)
    \/ WebhookDone("w1")
    \/ \E t \in DownloadTokenInputs : DownloadSelect(t, TRUE)
    \/ \E ok \in BOOLEAN : DownloadUpdate(ok)
    \/ DownloadDone

SpecDeliver == InitWithoutFile /\ [][NextDeliver]_vars

\* the download request in flight ends in this step
RedemptionEnds == dl.pc /= "done" /\ dl'.pc = "done"

\* C35: a redemption that ends without handing out the link or the file
\* leaves download_count, last_download_at and is_used of every token as they
\* were, and a download_count changes only by one and only in the step that
\* ends a redemption with the link or the file.
C35_CounterCountsDeliveries ==
    [][/\ (RedemptionEnds /\ ~Served(dl'.res))
           => \A t \in tokens : \E u \in tokens' :
                 /\ u.token = t.token
                 /\ u.download_count = t.download_count
                 /\ u.last_download_at = t.last_download_at
                 /\ u.is_used = t.is_used
       /\ \A t \in tokens : \A u \in tokens' :
            (u.token = t.token /\ u.download_count /= t.download_count)
                => /\ u.download_count = t.download_count + 1
                   /\ RedemptionEnds
                   /\ Served(dl'.res)]_vars

\* two download requests, each made once and interleaved statement by
\* statement with each other, with a delivery and with the clock; the count
\* update of a request fails or succeeds
NextTwins ==
    \/ Tick
    \/ Webhook("w1", {<<DefaultWebhookKey>>}, {TRUE})
    \/ \E p \in OrderedProducts, u \in UniqueCodes : createOrder(p, BotEmail, lastId + 1, u, TRUE, TRUE)
    \/ \E t \in DownloadTokenInputs : DownloadSelect(t, TRUE)
    \/ \E ok \in BOOLEAN : DownloadUpdate(ok)
    \/ \E t \in DownloadTokenInputs : SecondDownloadSelect(t, TRUE)
    \/ \E ok \in BOOLEAN : SecondDownloadUpdate(ok)

SpecTwins == Init /\ [][NextTwins]_vars

\* 1 when request r redeemed the token (it passed the checks and was
\* answered), else 0
Redeemed(r, token) ==
    IF r.pc = "done" /\ Served(r.res) /\ r.token = <<token>> THEN 1 ELSE 0

\* C36 as stated: every token's download_count is the number of requests
\* that passed the checks for it and were answered.
C36_CountEqualsRedemptions ==
    \A t \in tokens :
        t.download_count = Redeemed(dl, t.token) + Redeemed(dl2, t.token)

\* C36: no step removes a token or lowers a download_count; the count update
\* of a request raises its token's download_count by exactly one when the
\* statement succeeds and leaves it when the statement fails, whatever the
\* other request did since this request's query; and a download_count never
\* exceeds the number of requests that redeemed the token.
C36_EverySuccessfulUpdateCounts ==
    /\ [](\A t \in tokens :
            t.download_count <= Redeemed(dl, t.token) + Redeemed(dl2, t.token))
    /\ [][\A t \in tokens : \E u \in tokens' :
            /\ u.token = t.token
            /\ u.download_count >= t.download_count
            /\ \A ok \in BOOLEAN :
                 /\ (DownloadUpdate(ok) /\ t.token = dl.token[1])
                      => u.download_count = t.download_count + (IF ok THEN 1 ELSE 0)
                 /\ (SecondDownloadUpdate(ok) /\ t.token = dl2.token[1])
                      => u.download_count = t.download_count + (IF ok THEN 1 ELSE 0)
            /\ u.download_count /= t.download_count
                 => \/ DownloadUpdate(TRUE) /\ t.token = dl.token[1]
                    \/ SecondDownloadUpdate(TRUE) /\ t.token = dl2.token[1]]_vars

\* both requests passed the checks for the same token before either ran its
\* count update, both updates succeeded, and the token's count is 2
C36_Witness ==
    /\ dl.pc = "done" /\ dl2.pc = "done"
    /\ Served(dl.res) /\ Served(dl2.res)
    /\ dl.token = dl2.token
    /\ dl2.data[1].dt.download_count = 0
    /\ \E t \in tokens :
         /\ <<t.token>> = dl.token
         /\ t.download_count = 2

\* the write that switches the invoice email on
SmtpWrites == {w \in SettingWrites : w[1] = "smtp_active"}

\* one authenticated delivery at a time, statements and notifications failing
\* or not, while an administrator switches the invoice email on
NextNotify ==
    \/ \E w \in SmtpWrites : updateSetting(w[1], w[2])
    \/ Webhook("w1", {<<DefaultWebhookKey>>}, BOOLEAN)
    \/ \E p \in OrderedProducts, u \in UniqueCodes :
         createOrder(p, BotEmail, lastId + 1, u, TRUE, TRUE)

SpecNotify == Init /\ [][NextNotify]_vars

\* the channels of a sequence of dispatched notifications are all different
OncePerChannel(msgs) ==
    \A i, j \in 1..Len(msgs) : msgs[i].channel = msgs[j].channel => i = j

\* C37: a handler dispatches notifications only in the step of its token
\* INSERT and only when that INSERT succeeded; each carries the token of the
\* row just inserted and the matched order's invoice, at most one per channel;
\* when the INSERT fails nothing is dispatched and no token is stored; in both
\* cases the 200 'Payment processed' was sent before the INSERT ran.
C37_NotifiedOnlyAfterTokenInsert ==
    /\ [](\A h \in Handlers :
            wh[h].sent /= <<>>
                => /\ wh[h].pc = "done"
                   /\ "insertToken" \notin wh[h].errors
                   /\ \E t \in tokens :
                        /\ t.token = wh[h].token[1]
                        /\ t.invoice_number = wh[h].order[1].invoice_number)
    /\ [][\A h \in Handlers :
            /\ (wh'[h].sent /= wh[h].sent /\ wh'[h].sent /= <<>>)
                 => /\ WebhookStep(h, "insertToken", "done")
                    /\ wh[h].res = <<[status |-> 200, message |-> "Payment processed",
                                      invoice |-> <<wh[h].order[1].invoice_number>>]>>
                    /\ \E t \in tokens' \ tokens :
                         /\ t.token = wh[h].token[1]
                         /\ \A i \in 1..Len(wh'[h].sent) :
                              /\ wh'[h].sent[i].token = t.token
                              /\ wh'[h].sent[i].invoice = t.invoice_number
                    /\ OncePerChannel(wh'[h].sent)
            /\ (WebhookStep(h, "insertToken", "done") /\ "insertToken" \in wh'[h].errors)
                 => /\ wh'[h].sent = <<>>
                    /\ tokens' = tokens
                    /\ wh[h].res /= <<>> /\ wh[h].res[1].status = 200]_vars

\* a delivery whose token INSERT succeeded dispatched the invoice email and
\* the WhatsApp message, both with the inserted token
C37_Witness ==
    /\ wh["w1"].pc = "done"
    /\ Len(wh["w1"].sent) = 2
    /\ wh["w1"].sent[1].channel = "email"
    /\ wh["w1"].sent[2].channel = "whatsapp"
    /\ \E t \in tokens : t.token = wh["w1"].sent[1].token

\* the conversation of one buyer with the bot, the buyer's checkout and the
\* sending of the invoice failing or not, next to the deliveries that pay
\* the orders
NextBot ==
    \/ \E text \in BotTexts, u \in UniqueCodes, ok \in BOOLEAN :
         handleMessage(text, lastId + 1, u, TRUE, ok)
    \/ \E ok \in BOOLEAN : sendInvoice(ok)
    \/ Webhook("w1", {<<DefaultWebhookKey>>}, {TRUE})

SpecBot == Init /\ [][NextBot]_vars

\* the text of the index k, for k below 10
IndexText(k) == <<48 + k>>

\* C38: in state category_list every index from 1 to the number of listed
\* categories moves the session to product_list with that category, and in
\* state product_list every index from 1 to the number of listed products
\* whose product has stock moves the session to product_detail with that
\* product.
C38_IndexSelectsListedItem ==
    /\ bot.state = "category_list"
         => \A k \in 1..Len(bot.data.categories) :
               /\ ~RoutedToCheckout(bot, IndexText(k))
               /\ SessionAfter(bot, IndexText(k)).state = "product_list"
               /\ SessionAfter(bot, IndexText(k)).data.category
                     = <<bot.data.categories[k]>>
    /\ bot.state = "product_list"
         => \A k \in 1..Len(bot.data.products) :
               bot.data.products[k].stock > 0
                  => /\ ~RoutedToCheckout(bot, IndexText(k))
                     /\ SessionAfter(bot, IndexText(k)).state = "product_detail"
                     /\ SessionAfter(bot, IndexText(k)).data.product
                           = <<bot.data.products[k]>>

\* 'menu' as the buyer may type it: 'menu', 'MENU'
MenuTexts == { <<109, 101, 110, 117>>, <<77, 69, 78, 85>> }

\* the ids of the order rows
OrderIds(rows) == {o.id : o \in rows}

\* C39: in every session state the text 'menu' leaves the session in state
\* 'menu' with empty data, and handling it changes no order; an order row
\* appears only in a step taken in session state 'checkout' with a product
\* in the session, for that product; and when the handling of that message
\* ends, the session is in state 'menu' with empty data.
C39_MenuResetsAndOnlyCheckoutOrders ==
    /\ [](\A text \in MenuTexts :
            /\ ~RoutedToCheckout(bot, text)
            /\ SessionAfter(bot, text).state = "menu"
            /\ SessionAfter(bot, text).data = EmptyData)
    /\ [][/\ (\E text \in MenuTexts, u \in UniqueCodes, ok \in BOOLEAN :
                 handleMessage(text, lastId + 1, u, TRUE, ok))
              => orders' = orders
          /\ \A o \in orders' :
               o.id \notin OrderIds(orders)
                  => /\ bot.state = "checkout"
                     /\ bot.data.product /= <<>>
                     /\ o.product_id = bot.data.product[1].id
          /\ (bot.pc = "invoice" /\ bot'.pc = "idle")
              => /\ bot'.state = "menu"
                 /\ bot'.data = EmptyData]_vars

====
